---- MODULE Spec2Model ----
(***************************************************************************)
(* A model of the bulk FHIR client (bulkfhir/client.go): the authorized    *)
(* operations Authenticate, StartBulkDataExport, JobStatus and GetData as  *)
(* functions of the client's token and of the server's response, and the   *)
(* MonitorJobStatus goroutine as a state machine that polls JobStatus and  *)
(* writes MonitorResults to a buffered channel.                            *)
(*                                                                         *)
(* The specifications share the variables:                                 *)
(*   Spec         the monitor goroutine, its consumer and the clock;       *)
(*   SpecLive     Spec with the fairness of the goroutine's scheduling;    *)
(*   SpecClient   a caller that invokes the client's operations one at a   *)
(*                time against a server that may answer anything;          *)
(*   SpecWrapper  the calls on one resourceWrapper of the processing       *)
(*                package;                                                 *)
(*   SpecPipeline the calls on one Pipeline of the processing package;     *)
(*   SpecStalled  the monitor goroutine against a server that always fails *)
(*                and a consumer that stops reading at the first error;    *)
(*   SpecSession  a caller's operations on a client followed by a monitor  *)
(*                run on the same client;                                  *)
(*   SpecMulti    the calls on one MultiWriteCloser of package iohelpers.  *)
(***************************************************************************)
EXTENDS Integers, Sequences, FiniteSets, TLC

(***************************************************************************)
(* Bounds of the model.                                                    *)
(***************************************************************************)
\* longest X-Progress header value (in characters) a response carries
MaxHdrLen == 5
\* most entries in the "output" list of a job status body
MaxOutput == 3
\* most resource types passed to StartBulkDataExport
MaxTypes == 2
\* most Content-Location header values in an export response
MaxLocations == 2
\* largest timeout handed to MonitorJobStatus, in clock ticks
MaxTimeout == 2
\* largest checkPeriod handed to MonitorJobStatus, in clock ticks
MaxPeriod == 1
\* most JobStatus calls the monitor issues before its deadline passes
MaxPolls == 2

\* the number of status polls of one monitor whose caller has stopped reading
MaxUnreadPolls == 102

\* the number of operations on one resourceWrapper, its creation included
MaxCalls == 6

\* the processors and the sinks a Pipeline is built from
MaxProcessors == 2
MaxSinks == 2

\* the number of resources handed to Pipeline.Process
MaxResources == 2

\* the WriteClosers added to one MultiWriteCloser
MaxWriters == 3
\* the longest slice handed to MultiWriteCloser.Write, in bytes
MaxWriteLen == 1
\* the number of Write and Close calls on one MultiWriteCloser
MaxMultiCalls == 3

(***************************************************************************)
(* Program constants.                                                      *)
(***************************************************************************)
StatusOK == 200
StatusAccepted == 202
StatusUnauthorized == 401
StatusNotFound == 404
\* capacity of the channel made by MonitorJobStatus
ChanCap == 100

\* the error values of the package, and those of the libraries it calls
Nil == "nil"
ErrorUnableToParseProgress == "ErrorUnableToParseProgress"
ErrorUnauthorized == "ErrorUnauthorized"
ErrorTimeout == "ErrorTimeout"
ErrorUnexpectedStatusCode == "ErrorUnexpectedStatusCode"
ErrorGreaterThanOneContentLocation == "ErrorGreaterThanOneContentLocation"
ErrorUnexpectedNumberOfXProgress == "ErrorUnexpectedNumberOfXProgress"
ErrorRetryableHTTPStatus == "ErrorRetryableHTTPStatus"
\* errors.New("the specified resource type does not have a mapped BCDA API value")
ErrNoAPIValue == "ErrNoAPIValue"
\* errors.New("not a valid ResourceType")
ErrNotAValidResourceType == "ErrNotAValidResourceType"
\* the error of http.NewRequest / url.Parse on a malformed URL
ErrBadURL == "ErrBadURL"
\* the error of httpClient.Do
ErrTransport == "ErrTransport"
\* the error of json.Decoder.Decode
ErrJSONDecode == "ErrJSONDecode"
\* the *strconv.NumError of strconv.Atoi
ErrAtoiRange == "ErrAtoiRange"
\* the error of fhir.ParseFHIRInstant
ErrBadInstant == "ErrBadInstant"

(***************************************************************************)
(* Sequences.                                                              *)
(***************************************************************************)
SeqsUpTo(S, n) == UNION {[1..k -> S] : k \in 0..n}

Min(S) == CHOOSE x \in S : \A y \in S : x <= y

(***************************************************************************)
(* ResourceType and its wire names (client.go 70-123).                     *)
(***************************************************************************)
Patient == 0
Coverage == 1
ExplanationOfBenefit == 2
OperationOutcome == 3

\* the value ResourceTypeFromAPI returns beside its error: ResourceType(-1)
InvalidResourceType == 0 - 1

ToAPI(r) ==
  CASE r = Patient -> [s |-> "Patient", err |-> Nil]
    [] r = Coverage -> [s |-> "Coverage", err |-> Nil]
    [] r = ExplanationOfBenefit -> [s |-> "ExplanationOfBenefit", err |-> Nil]
    [] r = OperationOutcome -> [s |-> "OperationOutcome", err |-> Nil]
    [] OTHER -> [s |-> "", err |-> ErrNoAPIValue]

\* ResourceTypeFromAPI limited to the names of AllResourceTypes
ResourceTypeFromAPI_AllResourceTypes(r) ==
  CASE r = "Patient" -> [r |-> Patient, err |-> Nil]
    [] r = "Coverage" -> [r |-> Coverage, err |-> Nil]
    [] r = "ExplanationOfBenefit" -> [r |-> ExplanationOfBenefit, err |-> Nil]
    [] OTHER -> [r |-> InvalidResourceType, err |-> ErrNotAValidResourceType]

ResourceTypeFromAPI(r) ==
  CASE r = "Patient" -> [r |-> Patient, err |-> Nil]
    [] r = "Coverage" -> [r |-> Coverage, err |-> Nil]
    [] r = "ExplanationOfBenefit" -> [r |-> ExplanationOfBenefit, err |-> Nil]
    [] r = "OperationOutcome" -> [r |-> OperationOutcome, err |-> Nil]
    [] OTHER -> [r |-> InvalidResourceType, err |-> ErrNotAValidResourceType]

\* resourceTypesToQueryValue: the wire names joined by ",", as the sequence of
\* the pieces written to the strings.Builder; called with len(types) > 0 only
RECURSIVE JoinTypes(_, _)
JoinTypes(types, acc) ==
  IF types = <<>> THEN [v |-> acc, err |-> Nil]
  ELSE LET a == ToAPI(Head(types))
       IN IF a.err # Nil THEN [v |-> <<>>, err |-> a.err]
          ELSE JoinTypes(Tail(types), acc \o <<",", a.s>>)

resourceTypesToQueryValue(types) ==
  LET v == ToAPI(types[1])
  IN IF v.err # Nil THEN [v |-> <<>>, err |-> v.err]
     ELSE JoinTypes(Tail(types), <<v.s>>)

(***************************************************************************)
(* The progress header: progressREGEX and strconv.Atoi (client.go 184,     *)
(* 319-327).  A header value is a sequence of one-character strings.       *)
(***************************************************************************)
Digits == {"0", "1", "2", "3", "4", "5", "6", "7", "8", "9"}

DigitVal(c) ==
  CASE c = "0" -> 0 [] c = "1" -> 1 [] c = "2" -> 2 [] c = "3" -> 3
    [] c = "4" -> 4 [] c = "5" -> 5 [] c = "6" -> 6 [] c = "7" -> 7
    [] c = "8" -> 8 [] c = "9" -> 9

\* \(([0-9]+?)%\) matches s from position i on, the "%" standing at position j
MatchAt(s, i, j) ==
  /\ s[i] = "("
  /\ j >= i + 2
  /\ j + 1 <= Len(s)
  /\ \A k \in (i + 1)..(j - 1) : s[k] \in Digits
  /\ s[j] = "%"
  /\ s[j + 1] = ")"

\* FindStringSubmatch: the leftmost match and its capture group, <<>> if none
progressREGEX(s) ==
  LET starts == {i \in 1..Len(s) : \E j \in 1..Len(s) : MatchAt(s, i, j)}
  IN IF starts = {} THEN <<>>
     ELSE LET i == Min(starts)
              j == CHOOSE k \in 1..Len(s) : MatchAt(s, i, k)
          IN <<SubSeq(s, i, j + 1), SubSeq(s, i + 1, j - 1)>>

\* the decimal digits of the largest int (strconv.IntSize = 64)
MaxIntDigits ==
  <<"9", "2", "2", "3", "3", "7", "2", "0", "3", "6", "8", "5", "4", "7", "7",
    "5", "8", "0", "7">>

RECURSIVE StripZeros(_)
StripZeros(d) ==
  IF d # <<>> /\ Head(d) = "0" THEN StripZeros(Tail(d)) ELSE d

\* a > b for two digit strings of the same length
RECURSIVE DigitsGreater(_, _)
DigitsGreater(a, b) ==
  IF a = <<>> THEN FALSE
  ELSE IF DigitVal(Head(a)) # DigitVal(Head(b))
       THEN DigitVal(Head(a)) > DigitVal(Head(b))
       ELSE DigitsGreater(Tail(a), Tail(b))

RECURSIVE DecimalValue(_)
DecimalValue(d) ==
  IF d = <<>> THEN 0
  ELSE 10 * DecimalValue(SubSeq(d, 1, Len(d) - 1)) + DigitVal(d[Len(d)])

\* strconv.Atoi of a nonempty string of digits: the value, or a range error
\* when it does not fit the int
Atoi(d) ==
  LET z == StripZeros(d)
  IN IF \/ Len(z) > Len(MaxIntDigits)
        \/ Len(z) = Len(MaxIntDigits) /\ DigitsGreater(z, MaxIntDigits)
     THEN [n |-> 0, err |-> ErrAtoiRange]
     ELSE [n |-> DecimalValue(z), err |-> Nil]

(***************************************************************************)
(* URLs and instants: http.NewRequest / url.Parse, fhir.ParseFHIRInstant.  *)
(***************************************************************************)
GoodURL == "https://srv/jobs/1"
BadURL == "https://srv/%zz"
URLs == {GoodURL, BadURL}

\* http.NewRequest and url.Parse reject a malformed URL
NewRequestOK(u) == u # BadURL

GoodInstant == "2021-01-01T00:00:00Z"
BadInstant == "yesterday"
Instants == {GoodInstant, BadInstant}

\* fhir.ParseFHIRInstant: the time of an instant string (seconds since the
\* epoch), or an error for a string outside the instant grammar
ParseFHIRInstant(s) ==
  IF s = GoodInstant THEN [t |-> 1609459200, err |-> Nil]
  ELSE [t |-> 0, err |-> ErrBadInstant]

(***************************************************************************)
(* JobStatus (client.go 285-359).                                          *)
(***************************************************************************)
\* make(map[ResourceType][]string), and the nil map of JobStatus{}
EmptyMap == <<>>

ZeroJobStatus ==
  [IsComplete |-> FALSE, PercentComplete |-> 0, ResultURLs |-> EmptyMap,
   TransactionTime |-> 0]

\* MapAppend with the new value put in front: append(v, m[k]...)
MapAppend_Prepend(m, k, v) ==
  [x \in (DOMAIN m) \cup {k} |->
     IF x = k THEN (IF k \in DOMAIN m THEN <<v>> \o m[k] ELSE <<v>>)
     ELSE m[x]]

\* m[k] = append(m[k], v)
MapAppend(m, k, v) ==
  [x \in (DOMAIN m) \cup {k} |->
     IF x = k THEN (IF k \in DOMAIN m THEN Append(m[k], v) ELSE <<v>>)
     ELSE m[x]]

\* the loop over jr.Output: the map after all items, or the first error
RECURSIVE AccumulateOutput(_, _)
AccumulateOutput(items, m) ==
  IF items = <<>> THEN [m |-> m, err |-> Nil]
  ELSE LET r == ResourceTypeFromAPI(Head(items).type)
       IN IF r.err # Nil THEN [m |-> EmptyMap, err |-> r.err]
          ELSE AccumulateOutput(Tail(items), MapAppend(m, r.r, Head(items).url))

\* JobStatusAccepted with the header count tested by len(p) == 0
JobStatusAccepted_AnyCount(resp) ==
  LET p == resp.xProgress
  IN IF Len(p) = 0
     THEN [st |-> ZeroJobStatus, err |-> ErrorUnexpectedNumberOfXProgress]
     ELSE LET match == progressREGEX(p[1])
          IN IF Len(match) = 0
             THEN [st |-> ZeroJobStatus, err |-> ErrorUnableToParseProgress]
             ELSE LET progress == Atoi(match[2])
                  IN IF progress.err # Nil
                     THEN [st |-> ZeroJobStatus, err |-> progress.err]
                     ELSE [st |-> [ZeroJobStatus EXCEPT
                                     !.PercentComplete = progress.n],
                           err |-> Nil]

\* case http.StatusAccepted
JobStatusAccepted(resp) ==
  LET p == resp.xProgress
  IN IF Len(p) # 1
     THEN [st |-> ZeroJobStatus, err |-> ErrorUnexpectedNumberOfXProgress]
     ELSE LET match == progressREGEX(p[1])
          IN IF Len(match) = 0
             THEN [st |-> ZeroJobStatus, err |-> ErrorUnableToParseProgress]
             ELSE LET progress == Atoi(match[2])
                  IN IF progress.err # Nil
                     THEN [st |-> ZeroJobStatus, err |-> progress.err]
                     ELSE [st |-> [ZeroJobStatus EXCEPT
                                     !.PercentComplete = progress.n],
                           err |-> Nil]

\* case http.StatusOK
JobStatusOK(resp) ==
  LET jobStatus == [ZeroJobStatus EXCEPT !.IsComplete = TRUE]
  IN IF ~resp.body.decodable
     THEN [st |-> jobStatus, err |-> ErrJSONDecode]
     ELSE LET acc == AccumulateOutput(resp.body.output, EmptyMap)
              t == ParseFHIRInstant(resp.body.transactionTime)
          IN IF acc.err # Nil THEN [st |-> ZeroJobStatus, err |-> acc.err]
             ELSE IF t.err # Nil THEN [st |-> ZeroJobStatus, err |-> t.err]
             ELSE [st |-> [jobStatus EXCEPT !.ResultURLs = acc.m,
                                            !.TransactionTime = t.t],
                   err |-> Nil]

\* c.JobStatus that returns the error of httpClient.Do
JobStatus_TransportError(tok, jobStatusURL, resp) ==
  IF tok = ""
  THEN [st |-> ZeroJobStatus, err |-> ErrorUnauthorized, net |-> 0]
  ELSE IF ~NewRequestOK(jobStatusURL)
  THEN [st |-> ZeroJobStatus, err |-> ErrBadURL, net |-> 0]
  ELSE IF resp.transportErr
  THEN [st |-> ZeroJobStatus, err |-> ErrTransport, net |-> 1]
  ELSE LET r == CASE resp.code = StatusAccepted -> JobStatusAccepted(resp)
                  [] resp.code = StatusOK -> JobStatusOK(resp)
                  [] resp.code = StatusUnauthorized ->
                       [st |-> ZeroJobStatus, err |-> ErrorUnauthorized]
                  [] OTHER ->
                       [st |-> ZeroJobStatus, err |-> ErrorUnexpectedStatusCode]
       IN [st |-> r.st, err |-> r.err, net |-> 1]

\* c.JobStatus(jobStatusURL) against a server that answers resp; net counts
\* the requests handed to httpClient.Do
JobStatus(tok, jobStatusURL, resp) ==
  IF tok = ""
  THEN [st |-> ZeroJobStatus, err |-> ErrorUnauthorized, net |-> 0]
  ELSE IF ~NewRequestOK(jobStatusURL)
  THEN [st |-> ZeroJobStatus, err |-> ErrBadURL, net |-> 0]
  ELSE IF resp.transportErr
  THEN [st |-> ZeroJobStatus, err |-> Nil, net |-> 1]
  ELSE LET r == CASE resp.code = StatusAccepted -> JobStatusAccepted(resp)
                  [] resp.code = StatusOK -> JobStatusOK(resp)
                  [] resp.code = StatusUnauthorized ->
                       [st |-> ZeroJobStatus, err |-> ErrorUnauthorized]
                  [] OTHER ->
                       [st |-> ZeroJobStatus, err |-> ErrorUnexpectedStatusCode]
       IN [st |-> r.st, err |-> r.err, net |-> 1]

(***************************************************************************)
(* Authenticate, StartBulkDataExport, GetData (client.go 192-282, 412-445).*)
(***************************************************************************)
\* c.fullAuthURL, fixed when the client is made
fullAuthURL == "https://srv/auth/token"

\* c.Authenticate() against a server that answers resp: the client's token
\* after the call, the returned token and error
\* Authenticate that stores tr.Token before it looks at the decoder's error
Authenticate_StoreFirst(tok, resp) ==
  IF ~NewRequestOK(fullAuthURL)
  THEN [token |-> tok, ret |-> "", err |-> ErrBadURL, net |-> 0]
  ELSE IF resp.transportErr
  THEN [token |-> tok, ret |-> "", err |-> ErrTransport, net |-> 1]
  ELSE IF ~resp.decodable
  THEN [token |-> "", ret |-> "", err |-> ErrJSONDecode, net |-> 1]
  ELSE [token |-> resp.token, ret |-> resp.token, err |-> Nil, net |-> 1]

Authenticate(tok, resp) ==
  IF ~NewRequestOK(fullAuthURL)
  THEN [token |-> tok, ret |-> "", err |-> ErrBadURL, net |-> 0]
  ELSE IF resp.transportErr
  THEN [token |-> tok, ret |-> "", err |-> ErrTransport, net |-> 1]
  ELSE IF ~resp.decodable
  THEN [token |-> tok, ret |-> "", err |-> ErrJSONDecode, net |-> 1]
  ELSE [token |-> resp.token, ret |-> resp.token, err |-> Nil, net |-> 1]

\* the export URL has the group ID in its path: url.Parse rejects a bad one
GoodGroup == "all"
BadGroup == "%zz"
GroupIDs == {GoodGroup, BadGroup}

\* the response handling of StartBulkDataExport, lines 267-281
ExportResult(resp) ==
  IF resp.code = StatusUnauthorized
  THEN [url |-> "", err |-> ErrorUnauthorized, net |-> 1]
  ELSE IF resp.code # StatusOK /\ resp.code # StatusAccepted
  THEN [url |-> "", err |-> ErrorUnexpectedStatusCode, net |-> 1]
  ELSE IF Len(resp.cLocations) # 1
  THEN [url |-> "", err |-> ErrorGreaterThanOneContentLocation, net |-> 1]
  ELSE [url |-> resp.cLocations[1], err |-> Nil, net |-> 1]

\* StartBulkDataExport without the token check of lines 230-232
StartBulkDataExport_NoTokenCheck(tok, types, groupID, resp) ==
  IF groupID = BadGroup
  THEN [url |-> "", err |-> ErrBadURL, net |-> 0]
  ELSE IF Len(types) > 0 /\ resourceTypesToQueryValue(types).err # Nil
  THEN [url |-> "", err |-> resourceTypesToQueryValue(types).err, net |-> 0]
  ELSE IF resp.transportErr
  THEN [url |-> "", err |-> ErrTransport, net |-> 1]
  ELSE ExportResult(resp)

\* StartBulkDataExport that takes 202 alone for success
StartBulkDataExport_OnlyAccepted(tok, types, groupID, resp) ==
  IF tok = ""
  THEN [url |-> "", err |-> ErrorUnauthorized, net |-> 0]
  ELSE IF groupID = BadGroup
  THEN [url |-> "", err |-> ErrBadURL, net |-> 0]
  ELSE IF Len(types) > 0 /\ resourceTypesToQueryValue(types).err # Nil
  THEN [url |-> "", err |-> resourceTypesToQueryValue(types).err, net |-> 0]
  ELSE IF resp.transportErr
  THEN [url |-> "", err |-> ErrTransport, net |-> 1]
  ELSE IF resp.code = StatusOK
  THEN [url |-> "", err |-> ErrorUnexpectedStatusCode, net |-> 1]
  ELSE ExportResult(resp)

\* c.StartBulkDataExport(types, since, groupID) against a server that answers
\* resp; the since parameter only adds a query value and is left out
StartBulkDataExport(tok, types, groupID, resp) ==
  IF tok = ""
  THEN [url |-> "", err |-> ErrorUnauthorized, net |-> 0]
  ELSE IF groupID = BadGroup
  THEN [url |-> "", err |-> ErrBadURL, net |-> 0]
  ELSE IF Len(types) > 0 /\ resourceTypesToQueryValue(types).err # Nil
  THEN [url |-> "", err |-> resourceTypesToQueryValue(types).err, net |-> 0]
  ELSE IF resp.transportErr
  THEN [url |-> "", err |-> ErrTransport, net |-> 1]
  ELSE ExportResult(resp)

\* the value GetData returns for a nil io.ReadCloser
NoBody == "nil"

\* GetData without its case for http.StatusNotFound
GetData_NotFoundUnexpected(tok, bcdaURL, resp) ==
  IF tok = ""
  THEN [data |-> NoBody, err |-> ErrorUnauthorized, net |-> 0]
  ELSE IF ~NewRequestOK(bcdaURL)
  THEN [data |-> NoBody, err |-> ErrBadURL, net |-> 0]
  ELSE IF resp.transportErr
  THEN [data |-> NoBody, err |-> ErrTransport, net |-> 1]
  ELSE CASE resp.code = StatusOK -> [data |-> resp.data, err |-> Nil, net |-> 1]
         [] resp.code = StatusUnauthorized ->
              [data |-> NoBody, err |-> ErrorUnauthorized, net |-> 1]
         [] OTHER ->
              [data |-> NoBody, err |-> ErrorUnexpectedStatusCode, net |-> 1]

\* c.GetData(bcdaURL) against a server that answers resp
GetData(tok, bcdaURL, resp) ==
  IF tok = ""
  THEN [data |-> NoBody, err |-> ErrorUnauthorized, net |-> 0]
  ELSE IF ~NewRequestOK(bcdaURL)
  THEN [data |-> NoBody, err |-> ErrBadURL, net |-> 0]
  ELSE IF resp.transportErr
  THEN [data |-> NoBody, err |-> ErrTransport, net |-> 1]
  ELSE CASE resp.code = StatusOK -> [data |-> resp.data, err |-> Nil, net |-> 1]
         [] resp.code = StatusUnauthorized ->
              [data |-> NoBody, err |-> ErrorUnauthorized, net |-> 1]
         [] resp.code = StatusNotFound ->
              [data |-> NoBody, err |-> ErrorRetryableHTTPStatus, net |-> 1]
         [] OTHER ->
              [data |-> NoBody, err |-> ErrorUnexpectedStatusCode, net |-> 1]

(***************************************************************************)
(* What a server may answer, and what a caller may pass.                   *)
(***************************************************************************)
StatusCodes ==
  {StatusOK, StatusAccepted, StatusUnauthorized, StatusNotFound, 500}

\* the tokens a token endpoint hands out; "" is a body without access_token
Tokens == {"", "tok1", "tok2"}

AuthResponses ==
  [transportErr : BOOLEAN, decodable : BOOLEAN, token : Tokens]

HeaderChars == {"(", ")", "%", "0", "5", "x"}

Nines(n) == [i \in 1..n |-> "9"]

\* digit strings at and beyond the width of the int
LongHeaderValues ==
  { <<"(">> \o Nines(20) \o <<"%", ")">>,
    <<"(">> \o [MaxIntDigits EXCEPT ![19] = "8"] \o <<"%", ")">>,
    <<"(">> \o [i \in 1..21 |-> "0"] \o <<"5", "%", ")">> }

HeaderValues == SeqsUpTo(HeaderChars, MaxHdrLen) \cup LongHeaderValues

FewHeaderValues == { <<"(", "5", "%", ")">>, <<"x">> }

\* the values of a response's X-Progress header
HeaderLists ==
  {<<>>} \cup {<<h>> : h \in HeaderValues}
         \cup {<<h1, h2>> : h1 \in FewHeaderValues, h2 \in FewHeaderValues}

FewHeaderLists == {<<>>, << <<"(", "5", "%", ")">> >>}

OutputTypeNames == {"Patient", "Coverage", "Observation"}

OutputItems == [type : OutputTypeNames, url : {"u1", "u2"}]

Bodies ==
  [decodable : BOOLEAN, output : SeqsUpTo(OutputItems, MaxOutput),
   transactionTime : Instants]

EmptyBody == [decodable |-> FALSE, output |-> <<>>, transactionTime |-> ""]

FewBodies ==
  { EmptyBody,
    [decodable |-> TRUE, output |-> <<[type |-> "Patient", url |-> "u1"]>>,
     transactionTime |-> GoodInstant] }

\* the answers to a job status request: pending answers with any progress
\* headers, complete answers with any body, and answers of every status
\* code, as well as no answer at all, with a few headers and bodies
JobStatusResponses ==
  [transportErr : {FALSE}, code : {StatusAccepted}, xProgress : HeaderLists,
   body : {EmptyBody}]
  \cup
  [transportErr : {FALSE}, code : {StatusOK}, xProgress : {<<>>},
   body : Bodies]
  \cup
  [transportErr : BOOLEAN, code : StatusCodes, xProgress : FewHeaderLists,
   body : FewBodies]

ExportResponses ==
  [transportErr : BOOLEAN, code : StatusCodes,
   cLocations : SeqsUpTo({GoodURL, "https://srv/jobs/2"}, MaxLocations)]

\* ResourceType values, 4 being outside the enumeration
TypeLists == SeqsUpTo({Patient, Coverage, OperationOutcome, 4}, MaxTypes)

\* ResourceType values a caller may hold, inside and outside the enumeration
ResourceTypeValues == (0 - 2) .. (OperationOutcome + 2)

\* strings a caller may pass to ResourceTypeFromAPI
APINames ==
  {"Patient", "Coverage", "ExplanationOfBenefit", "OperationOutcome",
   "Observation", "patient", "INVALID(4)", ""}

DataResponses ==
  [transportErr : BOOLEAN, code : StatusCodes, data : {"ndjson"}]

(***************************************************************************)
(* resourceWrapper (client.go 548-594).  Wire bytes are a record of the    *)
(* resource they encode and of how they are written: "source" as they      *)
(* were read, "canonical" as the marshaller writes them, "malformed" when  *)
(* they encode nothing, "nil" for a nil slice.  A ContainedResource is     *)
(* named by its content; "nil" is the nil pointer.                         *)
(***************************************************************************)
ErrUnmarshal == "jsonformat: unmarshal failed"
ErrMarshal == "jsonformat: marshal failed"

NilJSON == [form |-> "nil", v |-> ""]
NilProto == "nil"

\* the contents a resource may have
ResourceValues == {"a", "b"}

\* a content the marshaller rejects
Unencodable == "unencodable"

ProtoValues == ResourceValues \cup {Unencodable}

\* the json a caller may pass to Pipeline.Process
InputBytes ==
  [form : {"source", "canonical"}, v : ResourceValues]
    \cup {[form |-> "malformed", v |-> ""]}

\* rw.unmarshaller.UnmarshalR4(json)
UnmarshalR4(json) ==
  IF json.form \in {"source", "canonical"}
  THEN [proto |-> json.v, err |-> Nil]
  ELSE [proto |-> NilProto, err |-> ErrUnmarshal]

\* rw.marshaller.Marshal(proto)
Marshal(proto) ==
  IF proto \in ResourceValues
  THEN [json |-> [form |-> "canonical", v |-> proto], err |-> Nil]
  ELSE [json |-> NilJSON, err |-> ErrMarshal]

\* &resourceWrapper{json: json}, and the zero value of the struct
NewWrapper(json) == [proto |-> NilProto, json |-> json, doneMutating |-> FALSE]
ZeroWrapper == NewWrapper(NilJSON)

\* Proto() that clears rw.json before it unmarshals
Proto_ClearFirst(w) ==
  LET u == UnmarshalR4(w.json)
      w0 == IF ~w.doneMutating THEN [w EXCEPT !.json = NilJSON] ELSE w
  IN IF w.proto = NilProto /\ u.err # Nil
     THEN [rw |-> w0, proto |-> NilProto, err |-> u.err]
     ELSE LET w1 == IF w.proto = NilProto THEN [w0 EXCEPT !.proto = u.proto]
                    ELSE w0
          IN [rw |-> w1, proto |-> w1.proto, err |-> Nil]

\* Proto() that leaves rw.json alone
Proto_KeepJSON(w) ==
  LET u == UnmarshalR4(w.json)
  IN IF w.proto = NilProto /\ u.err # Nil
     THEN [rw |-> w, proto |-> NilProto, err |-> u.err]
     ELSE LET w1 == IF w.proto = NilProto THEN [w EXCEPT !.proto = u.proto]
                    ELSE w
          IN [rw |-> w1, proto |-> w1.proto, err |-> Nil]

\* Proto() that clears rw.json whatever rw.doneMutating holds
Proto_AlwaysClear(w) ==
  LET u == UnmarshalR4(w.json)
  IN IF w.proto = NilProto /\ u.err # Nil
     THEN [rw |-> w, proto |-> NilProto, err |-> u.err]
     ELSE LET w1 == IF w.proto = NilProto THEN [w EXCEPT !.proto = u.proto]
                    ELSE w
              w2 == [w1 EXCEPT !.json = NilJSON]
          IN [rw |-> w2, proto |-> w2.proto, err |-> Nil]

\* rw.Proto() on the wrapper w: the wrapper after the call, and the results
Proto(w) ==
  LET u == UnmarshalR4(w.json)
  IN IF w.proto = NilProto /\ u.err # Nil
     THEN [rw |-> w, proto |-> NilProto, err |-> u.err]
     ELSE LET w1 == IF w.proto = NilProto THEN [w EXCEPT !.proto = u.proto]
                    ELSE w
              w2 == IF ~w1.doneMutating THEN [w1 EXCEPT !.json = NilJSON]
                    ELSE w1
          IN [rw |-> w2, proto |-> w2.proto, err |-> Nil]

\* rw.JSON() on the wrapper w: the wrapper after the call, and the results
JSON(w) ==
  LET m == Marshal(w.proto)
  IN IF w.json = NilJSON /\ m.err # Nil
     THEN [rw |-> w, json |-> NilJSON, err |-> m.err]
     ELSE LET w1 == IF w.json = NilJSON THEN [w EXCEPT !.json = m.json]
                    ELSE w
          IN [rw |-> w1, json |-> w1.json, err |-> Nil]

(***************************************************************************)
(* Pipeline (client.go 596-747).  The processors are numbered 1..n and the *)
(* sinks 1..m in the order of the slices given to NewPipeline.  An         *)
(* OutputFunction is named by its stage: 0 is p.writeToSinks, i is         *)
(* processors[i].Process.  Processors and sinks are interfaces: what each  *)
(* does in a call is the plan of that call.                                *)
(***************************************************************************)
WriteStage == 0

\* the loop of NewPipeline run upwards, from the first processor to the last
RECURSIVE PlumbUp(_, _, _, _)
PlumbUp(i, n, output, pipelineFunc) ==
  IF i > n
  THEN [output |-> output, pipelineFunc |-> pipelineFunc]
  ELSE PlumbUp(i + 1, n, [output EXCEPT ![i] = pipelineFunc], i)

\* lines 694-697: the loop of NewPipeline from processor i down to the first
RECURSIVE Plumb(_, _, _)
Plumb(i, output, pipelineFunc) ==
  IF i < 1
  THEN [output |-> output, pipelineFunc |-> pipelineFunc]
  ELSE Plumb(i - 1, [output EXCEPT ![i] = pipelineFunc], i)

\* NewPipeline with its loop run upwards
NewPipeline_Ascending(n, m) ==
  LET w == PlumbUp(1, n, [i \in 1..n |-> WriteStage], WriteStage)
  IN [built |-> TRUE, n |-> n, m |-> m, output |-> w.output,
      pipelineFunc |-> w.pipelineFunc]

\* NewPipeline(processors, sinks) for n processors and m sinks: output[i] is
\* what SetOutput gave to processor i
NewPipeline(n, m) ==
  LET w == Plumb(n, [i \in 1..n |-> WriteStage], WriteStage)
  IN [built |-> TRUE, n |-> n, m |-> m, output |-> w.output,
      pipelineFunc |-> w.pipelineFunc]

NoPipeline ==
  [built |-> FALSE, n |-> 0, m |-> 0, output |-> <<>>,
   pipelineFunc |-> WriteStage]

\* what a processor may do with a resource given to Process: pass it to its
\* output and return what the output returns, return nil without passing it
\* on, return an error without passing it on, or keep it until Finalize
Behaviours == {"forward", "drop", "fail", "buffer"}

\* the plan of a call: at most one stage does something else than forward
\* the resource (a processor) or succeed (a sink, a finalizer)
NoFault == [stage |-> "none", idx |-> 0, how |-> "forward"]

Plans(n, m) ==
  {NoFault}
    \cup {[stage |-> "P", idx |-> i, how |-> h] :
            i \in 1..n, h \in Behaviours \ {"forward"}}
    \cup {[stage |-> "S", idx |-> j, how |-> "fail"] : j \in 1..m}

FinalizeFaults(n, m) ==
  {NoFault}
    \cup {[stage |-> "P", idx |-> i, how |-> "fail"] : i \in 1..n}
    \cup {[stage |-> "S", idx |-> j, how |-> "fail"] : j \in 1..m}

Behaviour(plan, i) ==
  IF plan.stage = "P" /\ plan.idx = i THEN plan.how ELSE "forward"

Fails(plan, stage, idx) == plan.stage = stage /\ plan.idx = idx

ProcessError(i) == "Process failed: processor " \o ToString(i)
WriteError(j) == "Write failed: sink " \o ToString(j)
ProcessorFinalizeError(i) == "Finalize failed: processor " \o ToString(i)
SinkFinalizeError(j) == "Finalize failed: sink " \o ToString(j)

\* the invocation of a method of processor or sink idx with resource res,
\* whose doneMutating is done
Invocation(kind, idx, res, done) ==
  [kind |-> kind, idx |-> idx, res |-> res, done |-> done]

\* the loop of writeToSinks without its return on an error
RECURSIVE WriteLoop_Continue(_, _, _, _, _)
WriteLoop_Continue(p, j, res, plan, st) ==
  IF j > p.m
  THEN st
  ELSE LET st1 == [st EXCEPT !.log = Append(@, Invocation("Write", j, res,
                                                          res \in st.stabilized)),
                            !.err = IF st.err = Nil /\ Fails(plan, "S", j)
                                    THEN WriteError(j) ELSE @]
       IN WriteLoop_Continue(p, j + 1, res, plan, st1)

\* lines 706-711: the loop of writeToSinks from sink j on
RECURSIVE WriteLoop(_, _, _, _, _)
WriteLoop(p, j, res, plan, st) ==
  IF j > p.m
  THEN [st EXCEPT !.err = Nil]
  ELSE LET st1 == [st EXCEPT !.log = Append(@, Invocation("Write", j, res,
                                                          res \in st.stabilized))]
       IN IF Fails(plan, "S", j)
          THEN [st1 EXCEPT !.err = WriteError(j)]
          ELSE WriteLoop(p, j + 1, res, plan, st1)

\* writeToSinks without its return on an error
writeToSinks_NoEarlyReturn(p, res, plan, st) ==
  WriteLoop_Continue(p, 1, res, plan,
                     [st EXCEPT !.stabilized = @ \cup {res}, !.err = Nil])

\* writeToSinks that sets doneMutating after its loop over the sinks
writeToSinks_MarkLate(p, res, plan, st) ==
  LET st1 == WriteLoop(p, 1, res, plan, st)
  IN [st1 EXCEPT !.stabilized = @ \cup {res}]

\* the loop of writeToSinks from sink j down to the first
RECURSIVE WriteLoopDown(_, _, _, _, _)
WriteLoopDown(p, j, res, plan, st) ==
  IF j < 1
  THEN [st EXCEPT !.err = Nil]
  ELSE LET st1 == [st EXCEPT !.log = Append(@, Invocation("Write", j, res,
                                                          res \in st.stabilized))]
       IN IF Fails(plan, "S", j)
          THEN [st1 EXCEPT !.err = WriteError(j)]
          ELSE WriteLoopDown(p, j - 1, res, plan, st1)

\* writeToSinks with its loop over the sinks run from the last to the first
writeToSinks_Reverse(p, res, plan, st) ==
  WriteLoopDown(p, p.m, res, plan, [st EXCEPT !.stabilized = @ \cup {res}])

\* p.writeToSinks(ctx, resource)
writeToSinks(p, res, plan, st) ==
  WriteLoop(p, 1, res, plan, [st EXCEPT !.stabilized = @ \cup {res}])

\* the OutputFunction named stage called with the resource res
RECURSIVE RunStage(_, _, _, _, _)
RunStage(p, stage, res, plan, st) ==
  IF stage = WriteStage
  THEN writeToSinks(p, res, plan, st)
  ELSE LET b == Behaviour(plan, stage)
           st1 == [st EXCEPT !.log = Append(@, Invocation("Process", stage, res,
                                                          res \in st.stabilized))]
       IN CASE b = "forward" -> RunStage(p, p.output[stage], res, plan, st1)
            [] b = "drop" -> [st1 EXCEPT !.err = Nil]
            [] b = "fail" -> [st1 EXCEPT !.err = ProcessError(stage)]
            [] b = "buffer" ->
                 [st1 EXCEPT !.err = Nil,
                             !.buffered[stage] = Append(@, res)]

\* a processor's Finalize passes the resources it kept to its output, in
\* order, until one of these calls returns an error
RECURSIVE Flush(_, _, _, _, _)
Flush(p, i, held, plan, st) ==
  IF held = <<>>
  THEN [st EXCEPT !.err = Nil]
  ELSE LET st1 == RunStage(p, p.output[i], Head(held), plan, st)
       IN IF st1.err # Nil THEN st1 ELSE Flush(p, i, Tail(held), plan, st1)

\* lines 739-743: the loop over p.sinks of Finalize from sink j on
RECURSIVE FinalizeSinks(_, _, _, _)
FinalizeSinks(p, j, fault, st) ==
  IF j > p.m
  THEN [st EXCEPT !.err = Nil]
  ELSE LET st1 == [st EXCEPT !.log = Append(@, Invocation("SinkFinalize", j, 0,
                                                          FALSE))]
       IN IF Fails(fault, "S", j)
          THEN [st1 EXCEPT !.err = SinkFinalizeError(j)]
          ELSE FinalizeSinks(p, j + 1, fault, st1)

\* lines 734-738: the loop over p.processors of Finalize from processor i on
RECURSIVE FinalizeProcessors(_, _, _, _, _)
FinalizeProcessors(p, i, fault, plan, st) ==
  IF i > p.n
  THEN [st EXCEPT !.err = Nil]
  ELSE LET st1 == [st EXCEPT !.log = Append(@, Invocation("ProcessorFinalize",
                                                          i, 0, FALSE)),
                            !.buffered[i] = <<>>]
           st2 == Flush(p, i, st.buffered[i], plan, st1)
       IN IF st2.err # Nil
          THEN st2
          ELSE IF Fails(fault, "P", i)
          THEN [st2 EXCEPT !.err = ProcessorFinalizeError(i)]
          ELSE FinalizeProcessors(p, i + 1, fault, plan, st2)

\* Finalize that goes on after a finalizer failed and returns the first error
Finalize_BestEffort(p, fault, plan, st) ==
  LET st1 == FinalizeProcessors(p, 1, NoFault, plan, st)
      st2 == FinalizeSinks(p, 1, NoFault, st1)
  IN [st2 EXCEPT !.err =
        IF st1.err # Nil THEN st1.err
        ELSE IF fault.stage = "P" THEN ProcessorFinalizeError(fault.idx)
        ELSE IF fault.stage = "S" THEN SinkFinalizeError(fault.idx)
        ELSE Nil]

\* p.Finalize(ctx)
Finalize(p, fault, plan, st) ==
  LET st1 == FinalizeProcessors(p, 1, fault, plan, st)
  IN IF st1.err # Nil THEN st1 ELSE FinalizeSinks(p, 1, fault, st1)

(***************************************************************************)
(* MultiWriteCloser (package iohelpers).  m.writerClosers is the sequence  *)
(* of the writers added, each named by a number.  The writers are          *)
(* interfaces: what each returns in a call is the plan of that call.       *)
(***************************************************************************)
ErrShortWrite == "short write"
WriterError(w) == "write failed: writer " \o ToString(w)
CloseError(w) == "close failed: writer " \o ToString(w)

\* strings.Join(strs, sep)
RECURSIVE Join(_, _)
Join(strs, sep) ==
  IF strs = <<>> THEN ""
  ELSE IF Len(strs) = 1 THEN strs[1]
  ELSE strs[1] \o sep \o Join(Tail(strs), sep)

\* m.Add(wc)
Add(m, wc) == Append(m, wc)

\* what one writer may return from Write(p): a count from 0 to len(p), with
\* or without an error
WriteResults(len) == [n : 0..len, fails : BOOLEAN]

\* the loop of Write from entry i on; log is the writers called so far
RECURSIVE WriteFrom(_, _, _, _, _)
WriteFrom(m, i, len, plan, log) ==
  IF i > Len(m)
  THEN [n |-> len, err |-> Nil, log |-> log]
  ELSE LET log1 == Append(log, <<"Write", m[i]>>)
       IN IF plan[i].fails
          THEN [n |-> plan[i].n, err |-> WriterError(m[i]), log |-> log1]
          ELSE IF plan[i].n # len
          THEN [n |-> plan[i].n, err |-> ErrShortWrite, log |-> log1]
          ELSE WriteFrom(m, i + 1, len, plan, log1)

\* m.Write(p) with len(p) = len
Write(m, len, plan) == WriteFrom(m, 1, len, plan, <<>>)

\* the loop of Close from entry i on, that returns at the first error
RECURSIVE CloseFrom_FailFast(_, _, _, _)
CloseFrom_FailFast(m, i, plan, log) ==
  IF i > Len(m)
  THEN [err |-> Nil, log |-> log]
  ELSE LET log1 == Append(log, <<"Close", m[i]>>)
       IN IF plan[i]
          THEN [err |-> CloseError(m[i]), log |-> log1]
          ELSE CloseFrom_FailFast(m, i + 1, plan, log1)

\* Close that returns the first error of a writer's Close
Close_FailFast(m, plan) == CloseFrom_FailFast(m, 1, plan, <<>>)

\* the loop of Close from entry i on
RECURSIVE CloseFrom(_, _, _, _, _)
CloseFrom(m, i, plan, errStrings, log) ==
  IF i > Len(m)
  THEN [err |-> IF Len(errStrings) # 0 THEN Join(errStrings, ",") ELSE Nil,
        log |-> log]
  ELSE CloseFrom(m, i + 1, plan,
                 IF plan[i] THEN Append(errStrings, CloseError(m[i]))
                 ELSE errStrings,
                 Append(log, <<"Close", m[i]>>))

\* m.Close(); plan[i] says that the Close of entry i returns an error
Close(m, plan) == CloseFrom(m, 1, plan, <<>>, <<>>)

(***************************************************************************)
(* State.                                                                  *)
(***************************************************************************)
VARIABLES
  token,        \* c.token
  authed,       \* history of Authenticate() on this client: "no" call yet,
                \* only "failed" calls, or "yes": some call returned nil
  call,         \* SpecClient: the caller's operation that has just returned
  pc,           \* the monitor goroutine's position ("idle": not started)
  jobStatusURL, \* MonitorJobStatus's parameter
  checkPeriod,  \* MonitorJobStatus's parameter
  now,          \* the clock, in ticks
  deadline,     \* time.Now().Add(timeout)
  wake,         \* when the time.Sleep in progress may return
  jobStatus,    \* the goroutine's local jobStatus
  err,          \* the goroutine's local err
  out,          \* the channel's buffer
  closed,       \* how many times the channel has been closed
  stream,       \* history: every MonitorResult sent on the channel, in order
  sentAfterClose, \* history: a send happened on the closed channel
  trace,        \* history: the JobStatus and Authenticate calls of the monitor
  rw,           \* SpecWrapper: the resourceWrapper's proto, json, doneMutating
  rwHeld,       \* a caller holds the pointer a Proto() call returned
  rwTrace,      \* history: the calls on the wrapper, with what they returned
  pl,           \* SpecPipeline: the Pipeline that NewPipeline returned
  plBuffered,   \* the resources each processor keeps until its Finalize
  plStabilized, \* the resources whose wrapper has doneMutating set
  plCount,      \* the number of Process calls made on the pipeline
  plFinalized,  \* Finalize has been called
  plCall,       \* the last call on the pipeline: the invocations it made, in
                \* order, and the error it returned
  plErrors,     \* history: the error each call on the pipeline returned
  mw,           \* SpecMulti: m.writerClosers
  mwCall,       \* the last Write or Close on the MultiWriteCloser: the
                \* writers it called, in order, and what it returned
  mwCount       \* the number of Write and Close calls made

clientVars == <<token, authed, call>>

monitorVars ==
  <<pc, jobStatusURL, checkPeriod, now, deadline, wake, jobStatus, err, out,
    closed, stream, sentAfterClose, trace>>

wrapperVars == <<rw, rwHeld, rwTrace>>

pipelineVars ==
  <<pl, plBuffered, plStabilized, plCount, plFinalized, plCall, plErrors>>

multiVars == <<mw, mwCall, mwCount>>

procVars == <<wrapperVars, pipelineVars, multiVars>>

vars == <<clientVars, monitorVars, procVars>>

NoCall == [op |-> "none"]

NoMultiCall ==
  [op |-> "none", m |-> <<>>, len |-> 0, plan |-> <<>>, log |-> <<>>,
   n |-> 0, err |-> Nil]

NoPipelineCall ==
  [op |-> "none", res |-> 0, plan |-> NoFault, fault |-> NoFault,
   log |-> <<>>, err |-> Nil]

\* the history of Authenticate() after one more call that returned e
AuthHistory(h, e) == IF h = "yes" \/ e = Nil THEN "yes" ELSE "failed"

\* NewClient, and no monitor started
Init ==
  /\ token = ""
  /\ authed = "no"
  /\ call = NoCall
  /\ pc = "idle"
  /\ jobStatusURL = GoodURL
  /\ checkPeriod = 0
  /\ now = 0
  /\ deadline = 0
  /\ wake = 0
  /\ jobStatus = ZeroJobStatus
  /\ err = Nil
  /\ out = <<>>
  /\ closed = 0
  /\ stream = <<>>
  /\ sentAfterClose = FALSE
  /\ trace = <<>>
  /\ rw = ZeroWrapper
  /\ rwHeld = FALSE
  /\ rwTrace = <<>>
  /\ pl = NoPipeline
  /\ plBuffered = <<>>
  /\ plStabilized = {}
  /\ plCount = 0
  /\ plFinalized = FALSE
  /\ plCall = NoPipelineCall
  /\ plErrors = <<>>
  /\ mw = <<>>
  /\ mwCall = NoMultiCall
  /\ mwCount = 0

(***************************************************************************)
(* SpecClient: a caller invokes one operation at a time and looks at what  *)
(* it returned before it invokes the next.                                 *)
(***************************************************************************)
CallAuthenticate ==
  /\ call = NoCall
  /\ \E resp \in AuthResponses :
       LET res == Authenticate(token, resp)
       IN /\ token' = res.token
          /\ authed' = AuthHistory(authed, res.err)
          /\ call' = [op |-> "Authenticate", before |-> token,
                      wasAuthed |-> authed, resp |-> resp, res |-> res]
  /\ UNCHANGED monitorVars
  /\ UNCHANGED procVars

CallStartBulkDataExport ==
  /\ call = NoCall
  /\ \E types \in TypeLists, groupID \in GroupIDs, resp \in ExportResponses :
       call' = [op |-> "StartBulkDataExport", before |-> token,
                wasAuthed |-> authed, types |-> types, groupID |-> groupID,
                resp |-> resp,
                res |-> StartBulkDataExport(token, types, groupID, resp)]
  /\ UNCHANGED <<token, authed, monitorVars>>
  /\ UNCHANGED procVars

CallJobStatus ==
  /\ call = NoCall
  /\ \E u \in URLs, resp \in JobStatusResponses :
       call' = [op |-> "JobStatus", before |-> token, wasAuthed |-> authed,
                url |-> u, resp |-> resp, res |-> JobStatus(token, u, resp)]
  /\ UNCHANGED <<token, authed, monitorVars>>
  /\ UNCHANGED procVars

CallGetData ==
  /\ call = NoCall
  /\ \E u \in URLs, resp \in DataResponses :
       call' = [op |-> "GetData", before |-> token, wasAuthed |-> authed,
                url |-> u, resp |-> resp, res |-> GetData(token, u, resp)]
  /\ UNCHANGED <<token, authed, monitorVars>>
  /\ UNCHANGED procVars

\* r.ToAPI(), and the name it returned handed to ResourceTypeFromAPI
CallToAPI ==
  /\ call = NoCall
  /\ \E r \in ResourceTypeValues :
       LET res == ToAPI(r)
       IN call' = [op |-> "ToAPI", before |-> token, wasAuthed |-> authed,
                   r |-> r, res |-> res,
                   back |-> IF res.err = Nil THEN ResourceTypeFromAPI(res.s)
                            ELSE [r |-> InvalidResourceType, err |-> res.err]]
  /\ UNCHANGED <<token, authed, monitorVars>>
  /\ UNCHANGED procVars

CallResourceTypeFromAPI ==
  /\ call = NoCall
  /\ \E name \in APINames :
       call' = [op |-> "ResourceTypeFromAPI", before |-> token,
                wasAuthed |-> authed, name |-> name,
                res |-> ResourceTypeFromAPI(name)]
  /\ UNCHANGED <<token, authed, monitorVars>>
  /\ UNCHANGED procVars

\* the caller is done with the result
Return ==
  /\ call # NoCall
  /\ call' = NoCall
  /\ UNCHANGED <<token, authed, monitorVars>>
  /\ UNCHANGED procVars

NextClient ==
  \/ CallAuthenticate
  \/ CallStartBulkDataExport
  \/ CallJobStatus
  \/ CallGetData
  \/ CallToAPI
  \/ CallResourceTypeFromAPI
  \/ Return

SpecClient == Init /\ [][NextClient]_vars

(***************************************************************************)
(* Spec: MonitorJobStatus (client.go 361-408).  The caller may first       *)
(* authenticate; it then starts the monitor, whose goroutine runs          *)
(* statement by statement while the clock ticks and the caller receives.   *)
(***************************************************************************)
\* what the job status server answers to the monitor's polls
MonitorResponses ==
  { [transportErr |-> TRUE, code |-> 0, xProgress |-> <<>>, body |-> EmptyBody],
    [transportErr |-> FALSE, code |-> StatusAccepted,
     xProgress |-> << <<"(", "5", "0", "%", ")">> >>, body |-> EmptyBody],
    [transportErr |-> FALSE, code |-> StatusOK, xProgress |-> <<>>,
     body |-> [decodable |-> TRUE,
               output |-> <<[type |-> "Patient", url |-> "u1"]>>,
               transactionTime |-> GoodInstant]],
    [transportErr |-> FALSE, code |-> StatusOK, xProgress |-> <<>>,
     body |-> EmptyBody],
    [transportErr |-> FALSE, code |-> StatusUnauthorized, xProgress |-> <<>>,
     body |-> EmptyBody],
    [transportErr |-> FALSE, code |-> 500, xProgress |-> <<>>,
     body |-> EmptyBody] }

\* what the token endpoint answers before and while the monitor runs
MonitorAuthResponses ==
  { [transportErr |-> TRUE, decodable |-> FALSE, token |-> ""],
    [transportErr |-> FALSE, decodable |-> TRUE, token |-> ""],
    [transportErr |-> FALSE, decodable |-> TRUE, token |-> "tok1"] }

\* &MonitorResult{Status: st} and &MonitorResult{Error: e}
StatusResult(st) == [Status |-> st, Error |-> Nil]
ErrorResult(e) == [Status |-> ZeroJobStatus, Error |-> e]

\* out <- r on a channel without a capacity
Send_Unbounded(r) ==
  /\ out' = Append(out, r)
  /\ stream' = Append(stream, r)
  /\ sentAfterClose' = (sentAfterClose \/ closed > 0)

\* out <- r: blocks while the buffer is full
Send(r) ==
  /\ Len(out) < ChanCap
  /\ out' = Append(out, r)
  /\ stream' = Append(stream, r)
  /\ sentAfterClose' = (sentAfterClose \/ closed > 0)

NumPolls == Cardinality({i \in DOMAIN trace : trace[i].op = "JobStatus"})

\* the caller authenticates before it starts the monitor
PreAuthenticate ==
  /\ pc = "idle"
  /\ call = NoCall
  /\ \E resp \in MonitorAuthResponses :
       LET res == Authenticate(token, resp)
       IN /\ token' = res.token
          /\ authed' = AuthHistory(authed, res.err)
  /\ UNCHANGED <<call, monitorVars>>
  /\ UNCHANGED procVars

\* c.MonitorJobStatus(jobStatusURL, checkPeriod, timeout): lines 378-380, 407
MonitorJobStatus ==
  /\ pc = "idle"
  /\ call = NoCall
  /\ \E u \in URLs, p \in 0..MaxPeriod, timeout \in 0..MaxTimeout :
       /\ jobStatusURL' = u
       /\ checkPeriod' = p
       /\ deadline' = now + timeout
  /\ out' = <<>>
  /\ jobStatus' = ZeroJobStatus
  /\ err' = Nil
  /\ pc' = "head"
  /\ UNCHANGED <<clientVars, now, wake, closed, stream, sentAfterClose, trace>>
  /\ UNCHANGED procVars

\* the loop condition without the deadline: for !jobStatus.IsComplete
MonHead_NoDeadline ==
  /\ pc = "head"
  /\ IF ~jobStatus.IsComplete
     THEN /\ NumPolls < MaxPolls
          /\ pc' = "call"
     ELSE pc' = "exit"
  /\ UNCHANGED <<clientVars, jobStatusURL, checkPeriod, now, deadline, wake,
                 jobStatus, err, out, closed, stream, sentAfterClose, trace>>
  /\ UNCHANGED procVars

\* line 383: the loop condition
MonHead ==
  /\ pc = "head"
  /\ IF ~jobStatus.IsComplete /\ now < deadline
     THEN /\ NumPolls < MaxPolls
          /\ pc' = "call"
     ELSE pc' = "exit"
  /\ UNCHANGED <<clientVars, jobStatusURL, checkPeriod, now, deadline, wake,
                 jobStatus, err, out, closed, stream, sentAfterClose, trace>>
  /\ UNCHANGED procVars

\* the call of c.JobStatus with ErrorUnauthorized handled like any error
MonJobStatus_NoReauth ==
  /\ pc = "call"
  /\ \E resp \in MonitorResponses :
       LET r == JobStatus(token, jobStatusURL, resp)
       IN /\ jobStatus' = r.st
          /\ err' = r.err
          /\ trace' = Append(trace,
                        [op |-> "JobStatus",
                         code |-> IF r.net = 1 /\ ~resp.transportErr
                                  THEN resp.code ELSE 0,
                         err |-> r.err, complete |-> r.st.IsComplete])
          /\ pc' = IF r.err # Nil THEN "sendErr" ELSE "sendStatus"
  /\ UNCHANGED <<clientVars, jobStatusURL, checkPeriod, now, deadline, wake,
                 out, closed, stream, sentAfterClose>>
  /\ UNCHANGED procVars

\* the call of c.JobStatus followed by a check of the deadline that ends the
\* loop before the result is sent
MonJobStatus_DeadlineAfterPoll ==
  /\ pc = "call"
  /\ \E resp \in MonitorResponses :
       LET r == JobStatus(token, jobStatusURL, resp)
       IN /\ jobStatus' = r.st
          /\ err' = r.err
          /\ trace' = Append(trace,
                        [op |-> "JobStatus",
                         code |-> IF r.net = 1 /\ ~resp.transportErr
                                  THEN resp.code ELSE 0,
                         err |-> r.err, complete |-> r.st.IsComplete])
          /\ pc' = IF now >= deadline
                   THEN "exit"
                   ELSE IF r.err # Nil
                   THEN (IF r.err = ErrorUnauthorized THEN "auth" ELSE "sendErr")
                   ELSE "sendStatus"
  /\ UNCHANGED <<clientVars, jobStatusURL, checkPeriod, now, deadline, wake,
                 out, closed, stream, sentAfterClose>>
  /\ UNCHANGED procVars

\* lines 384-386, 394: the call of c.JobStatus and the branch on its error
MonJobStatus ==
  /\ pc = "call"
  /\ \E resp \in MonitorResponses :
       LET r == JobStatus(token, jobStatusURL, resp)
       IN /\ jobStatus' = r.st
          /\ err' = r.err
          /\ trace' = Append(trace,
                        [op |-> "JobStatus",
                         code |-> IF r.net = 1 /\ ~resp.transportErr
                                  THEN resp.code ELSE 0,
                         err |-> r.err, complete |-> r.st.IsComplete])
          /\ pc' = IF r.err # Nil
                   THEN (IF r.err = ErrorUnauthorized THEN "auth" ELSE "sendErr")
                   ELSE "sendStatus"
  /\ UNCHANGED <<clientVars, jobStatusURL, checkPeriod, now, deadline, wake,
                 out, closed, stream, sentAfterClose>>
  /\ UNCHANGED procVars

\* lines 387-388: the call of c.Authenticate
MonAuthenticate ==
  /\ pc = "auth"
  /\ \E resp \in MonitorAuthResponses :
       LET a == Authenticate(token, resp)
       IN /\ token' = a.token
          /\ authed' = AuthHistory(authed, a.err)
          /\ err' = a.err
          /\ trace' = Append(trace,
                        [op |-> "Authenticate", code |-> 0, err |-> a.err,
                         complete |-> FALSE])
          /\ pc' = IF a.err # Nil THEN "sendAuthErr" ELSE "head"
  /\ UNCHANGED <<call, jobStatusURL, checkPeriod, now, deadline, wake,
                 jobStatus, out, closed, stream, sentAfterClose>>
  /\ UNCHANGED procVars

\* lines 389-391: the error of Authenticate is sent, then continue
MonSendAuthErr ==
  /\ pc = "sendAuthErr"
  /\ Send(ErrorResult(err))
  /\ pc' = "head"
  /\ UNCHANGED <<clientVars, jobStatusURL, checkPeriod, now, deadline, wake,
                 jobStatus, err, closed, trace>>
  /\ UNCHANGED procVars

\* line 393
MonSendErr ==
  /\ pc = "sendErr"
  /\ Send(ErrorResult(err))
  /\ pc' = "check"
  /\ UNCHANGED <<clientVars, jobStatusURL, checkPeriod, now, deadline, wake,
                 jobStatus, err, closed, trace>>
  /\ UNCHANGED procVars

\* line 395
MonSendStatus ==
  /\ pc = "sendStatus"
  /\ Send(StatusResult(jobStatus))
  /\ pc' = "check"
  /\ UNCHANGED <<clientVars, jobStatusURL, checkPeriod, now, deadline, wake,
                 jobStatus, err, closed, trace>>
  /\ UNCHANGED procVars

\* lines 398-400: time.Sleep(checkPeriod) begins unless the job is complete
MonCheck ==
  /\ pc = "check"
  /\ IF ~jobStatus.IsComplete
     THEN /\ pc' = "sleep"
          /\ wake' = now + checkPeriod
     ELSE /\ pc' = "head"
          /\ wake' = wake
  /\ UNCHANGED <<clientVars, jobStatusURL, checkPeriod, now, deadline,
                 jobStatus, err, out, closed, stream, sentAfterClose, trace>>
  /\ UNCHANGED procVars

\* line 399: time.Sleep returns once checkPeriod has passed
MonWake ==
  /\ pc = "sleep"
  /\ now >= wake
  /\ pc' = "head"
  /\ UNCHANGED <<clientVars, jobStatusURL, checkPeriod, now, deadline, wake,
                 jobStatus, err, out, closed, stream, sentAfterClose, trace>>
  /\ UNCHANGED procVars

\* after the loop, with close(out) put before the timeout is sent
MonExit_CloseEarly ==
  /\ pc = "exit"
  /\ closed' = closed + 1
  /\ pc' = IF ~jobStatus.IsComplete THEN "sendTimeout" ELSE "done"
  /\ UNCHANGED <<clientVars, jobStatusURL, checkPeriod, now, deadline, wake,
                 jobStatus, err, out, stream, sentAfterClose, trace>>
  /\ UNCHANGED procVars

\* after the loop, without the timeout error of lines 402-404
MonExit_NoTimeout ==
  /\ pc = "exit"
  /\ pc' = "close"
  /\ UNCHANGED <<clientVars, jobStatusURL, checkPeriod, now, deadline, wake,
                 jobStatus, err, out, closed, stream, sentAfterClose, trace>>
  /\ UNCHANGED procVars

\* after the loop, with the timeout error sent whatever jobStatus holds
MonExit_AlwaysTimeout ==
  /\ pc = "exit"
  /\ pc' = "sendTimeout"
  /\ UNCHANGED <<clientVars, jobStatusURL, checkPeriod, now, deadline, wake,
                 jobStatus, err, out, closed, stream, sentAfterClose, trace>>
  /\ UNCHANGED procVars

\* line 402: after the loop
MonExit ==
  /\ pc = "exit"
  /\ pc' = IF ~jobStatus.IsComplete THEN "sendTimeout" ELSE "close"
  /\ UNCHANGED <<clientVars, jobStatusURL, checkPeriod, now, deadline, wake,
                 jobStatus, err, out, closed, stream, sentAfterClose, trace>>
  /\ UNCHANGED procVars

\* line 403
MonSendTimeout ==
  /\ pc = "sendTimeout"
  /\ Send(ErrorResult(ErrorTimeout))
  /\ pc' = "close"
  /\ UNCHANGED <<clientVars, jobStatusURL, checkPeriod, now, deadline, wake,
                 jobStatus, err, closed, trace>>
  /\ UNCHANGED procVars

\* line 405: close(out), and the goroutine ends
MonClose ==
  /\ pc = "close"
  /\ closed' = closed + 1
  /\ pc' = "done"
  /\ UNCHANGED <<clientVars, jobStatusURL, checkPeriod, now, deadline, wake,
                 jobStatus, err, out, stream, sentAfterClose, trace>>
  /\ UNCHANGED procVars

\* time passes; the clock is followed for as long as the goroutine reads it
Tick ==
  /\ pc \notin {"idle", "done"}
  /\ now < deadline \/ (pc = "sleep" /\ now < wake)
  /\ now' = now + 1
  /\ UNCHANGED <<clientVars, pc, jobStatusURL, checkPeriod, deadline, wake,
                 jobStatus, err, out, closed, stream, sentAfterClose, trace>>
  /\ UNCHANGED procVars

\* the caller receives the next buffered result from the channel
Recv ==
  /\ out # <<>>
  /\ out' = Tail(out)
  /\ UNCHANGED <<clientVars, pc, jobStatusURL, checkPeriod, now, deadline,
                 wake, jobStatus, err, closed, stream, sentAfterClose, trace>>
  /\ UNCHANGED procVars

Monitor ==
  \/ MonHead
  \/ MonJobStatus
  \/ MonAuthenticate
  \/ MonSendAuthErr
  \/ MonSendErr
  \/ MonSendStatus
  \/ MonCheck
  \/ MonWake
  \/ MonExit
  \/ MonSendTimeout
  \/ MonClose

Next ==
  \/ PreAuthenticate
  \/ MonitorJobStatus
  \/ Monitor
  \/ Tick
  \/ Recv

Spec == Init /\ [][Next]_vars

\* the monitor goroutine under the scheduling Go gives it: a goroutine that
\* can run does run, the clock advances, and the caller keeps receiving
SpecLive ==
  /\ Init
  /\ [][Next]_vars
  /\ WF_vars(Monitor)
  /\ WF_vars(Tick)
  /\ WF_vars(Recv)

(***************************************************************************)
(* SpecSession: a caller uses the client's operations and then starts the  *)
(* monitor on the same client.                                             *)
(***************************************************************************)
ClientBeforeMonitor ==
  /\ pc = "idle"
  /\ NextClient

NextSession ==
  \/ ClientBeforeMonitor
  \/ MonitorJobStatus
  \/ Monitor
  \/ Tick
  \/ Recv

SpecSession == Init /\ [][NextSession]_vars

(***************************************************************************)
(* SpecStalled: the monitor of a client that holds a token, against a      *)
(* server that answers every poll with an error status, and a caller that  *)
(* stops receiving once it has received an error.                          *)
(***************************************************************************)
FailingResponses ==
  { [transportErr |-> FALSE, code |-> 500, xProgress |-> <<>>,
     body |-> EmptyBody] }

\* the results the caller has received: those sent and no longer buffered
Received == SubSeq(stream, 1, Len(stream) - Len(out))

ConsumerStopped == \E i \in DOMAIN Received : Received[i].Error # Nil

StartAuthenticated ==
  /\ token # ""
  /\ MonitorJobStatus

\* line 383: the loop condition
MonHeadUnread ==
  /\ pc = "head"
  /\ IF ~jobStatus.IsComplete /\ now < deadline
     THEN /\ NumPolls < MaxUnreadPolls
          /\ pc' = "call"
     ELSE pc' = "exit"
  /\ UNCHANGED <<clientVars, jobStatusURL, checkPeriod, now, deadline, wake,
                 jobStatus, err, out, closed, stream, sentAfterClose, trace>>
  /\ UNCHANGED procVars

\* lines 384-386, 394: the call of c.JobStatus, answered with an error status
MonJobStatusFailing ==
  /\ pc = "call"
  /\ \E resp \in FailingResponses :
       LET r == JobStatus(token, jobStatusURL, resp)
       IN /\ jobStatus' = r.st
          /\ err' = r.err
          /\ trace' = Append(trace,
                        [op |-> "JobStatus",
                         code |-> IF r.net = 1 /\ ~resp.transportErr
                                  THEN resp.code ELSE 0,
                         err |-> r.err, complete |-> r.st.IsComplete])
          /\ pc' = IF r.err # Nil
                   THEN (IF r.err = ErrorUnauthorized THEN "auth" ELSE "sendErr")
                   ELSE "sendStatus"
  /\ UNCHANGED <<clientVars, jobStatusURL, checkPeriod, now, deadline, wake,
                 out, closed, stream, sentAfterClose>>
  /\ UNCHANGED procVars

\* the caller receives until it has received an error
RecvUntilError ==
  /\ ~ConsumerStopped
  /\ Recv

MonitorStalled ==
  \/ MonHeadUnread
  \/ MonJobStatusFailing
  \/ MonSendErr
  \/ MonCheck
  \/ MonWake
  \/ MonExit
  \/ MonSendTimeout
  \/ MonClose

NextStalled ==
  \/ PreAuthenticate
  \/ StartAuthenticated
  \/ MonitorStalled
  \/ Tick
  \/ RecvUntilError

SpecStalled == Init /\ [][NextStalled]_vars

(***************************************************************************)
(* SpecWrapper: one resourceWrapper (client.go 548-594) from its creation  *)
(* by Pipeline.Process: processors call Proto() and JSON() and mutate the  *)
(* proto they were given, writeToSinks sets doneMutating, and sinks call   *)
(* Proto() and JSON() without mutating the proto.                          *)
(***************************************************************************)
WrapperEvent(op, w, json, proto, e) ==
  [op |-> op, done |-> w.doneMutating, json |-> json, proto |-> proto,
   err |-> e]

\* lines 724-730: the wrapper Pipeline.Process creates
CreateWrapper ==
  /\ rwTrace = <<>>
  /\ \E json \in InputBytes :
       /\ rw' = NewWrapper(json)
       /\ rwTrace' = <<WrapperEvent("new", rw', json, NilProto, Nil)>>
  /\ UNCHANGED <<rwHeld, clientVars, monitorVars, pipelineVars, multiVars>>

CallProto ==
  /\ rwTrace # <<>>
  /\ Len(rwTrace) < MaxCalls
  /\ LET r == Proto(rw)
     IN /\ rw' = r.rw
        /\ rwHeld' = (rwHeld \/ r.err = Nil)
        /\ rwTrace' =
             Append(rwTrace, WrapperEvent("Proto", rw, NilJSON, r.proto, r.err))
  /\ UNCHANGED <<clientVars, monitorVars, pipelineVars, multiVars>>

CallJSON ==
  /\ rwTrace # <<>>
  /\ Len(rwTrace) < MaxCalls
  /\ LET r == JSON(rw)
     IN /\ rw' = r.rw
        /\ rwTrace' =
             Append(rwTrace, WrapperEvent("JSON", rw, r.json, NilProto, r.err))
  /\ UNCHANGED <<rwHeld, clientVars, monitorVars, pipelineVars, multiVars>>

\* a processor changes the ContainedResource that Proto() returned to it
Mutate ==
  /\ rwHeld
  /\ ~rw.doneMutating
  /\ Len(rwTrace) < MaxCalls
  /\ \E v \in ProtoValues \ {rw.proto} :
       /\ rw' = [rw EXCEPT !.proto = v]
       /\ rwTrace' = Append(rwTrace, WrapperEvent("Mutate", rw, NilJSON, v, Nil))
  /\ UNCHANGED <<rwHeld, clientVars, monitorVars, pipelineVars, multiVars>>

\* lines 702-704 of writeToSinks
MarkDoneMutating ==
  /\ rwTrace # <<>>
  /\ Len(rwTrace) < MaxCalls
  /\ rw' = [rw EXCEPT !.doneMutating = TRUE]
  /\ rwTrace' =
       Append(rwTrace, WrapperEvent("writeToSinks", rw, NilJSON, NilProto, Nil))
  /\ UNCHANGED <<rwHeld, clientVars, monitorVars, pipelineVars, multiVars>>

NextWrapper ==
  \/ CreateWrapper
  \/ CallProto
  \/ CallJSON
  \/ Mutate
  \/ MarkDoneMutating

SpecWrapper == Init /\ [][NextWrapper]_vars

(***************************************************************************)
(* SpecPipeline: a caller builds a Pipeline, hands it resources one at a   *)
(* time and calls Finalize (client.go 661-747).  The resources are         *)
(* numbered in the order of the Process calls.                             *)
(***************************************************************************)
RunState(e) ==
  [log |-> <<>>, buffered |-> plBuffered, stabilized |-> plStabilized,
   err |-> e]

BuildPipeline ==
  /\ ~pl.built
  /\ \E n \in 0..MaxProcessors, m \in 0..MaxSinks :
       /\ pl' = NewPipeline(n, m)
       /\ plBuffered' = [i \in 1..n |-> <<>>]
  /\ UNCHANGED <<plStabilized, plCount, plFinalized, plCall, plErrors>>
  /\ UNCHANGED <<clientVars, monitorVars, wrapperVars, multiVars>>

\* p.Process that returns nil whatever p.pipelineFunc returned
CallProcess_DropError ==
  /\ pl.built
  /\ ~plFinalized
  /\ plCount < MaxResources
  /\ \E plan \in Plans(pl.n, pl.m) :
       LET res == plCount + 1
           st == RunStage(pl, pl.pipelineFunc, res, plan, RunState(Nil))
       IN /\ plCall' = [op |-> "Process", res |-> res, plan |-> plan,
                        fault |-> NoFault, log |-> st.log, err |-> Nil]
          /\ plErrors' = Append(plErrors, Nil)
          /\ plBuffered' = st.buffered
          /\ plStabilized' = st.stabilized
          /\ plCount' = res
  /\ UNCHANGED <<pl, plFinalized>>
  /\ UNCHANGED <<clientVars, monitorVars, wrapperVars, multiVars>>

\* p.Process(ctx, resourceType, sourceURL, json): line 724
CallProcess ==
  /\ pl.built
  /\ ~plFinalized
  /\ plCount < MaxResources
  /\ \E plan \in Plans(pl.n, pl.m) :
       LET res == plCount + 1
           st == RunStage(pl, pl.pipelineFunc, res, plan, RunState(Nil))
       IN /\ plCall' = [op |-> "Process", res |-> res, plan |-> plan,
                        fault |-> NoFault, log |-> st.log, err |-> st.err]
          /\ plErrors' = Append(plErrors, st.err)
          /\ plBuffered' = st.buffered
          /\ plStabilized' = st.stabilized
          /\ plCount' = res
  /\ UNCHANGED <<pl, plFinalized>>
  /\ UNCHANGED <<clientVars, monitorVars, wrapperVars, multiVars>>

\* p.Finalize(ctx), called once after the last Process
CallFinalize ==
  /\ pl.built
  /\ ~plFinalized
  /\ \E fault \in FinalizeFaults(pl.n, pl.m), plan \in Plans(pl.n, pl.m) :
       LET st == Finalize(pl, fault, plan, RunState(Nil))
       IN /\ plCall' = [op |-> "Finalize", res |-> 0, plan |-> plan,
                        fault |-> fault, log |-> st.log, err |-> st.err]
          /\ plErrors' = Append(plErrors, st.err)
          /\ plBuffered' = st.buffered
          /\ plStabilized' = st.stabilized
  /\ plFinalized' = TRUE
  /\ UNCHANGED <<pl, plCount>>
  /\ UNCHANGED <<clientVars, monitorVars, wrapperVars, multiVars>>

NextPipeline ==
  \/ BuildPipeline
  \/ CallProcess
  \/ CallFinalize

SpecPipeline == Init /\ [][NextPipeline]_vars

(***************************************************************************)
(* SpecMulti: a caller adds writers to a MultiWriteCloser, each Add giving *)
(* a writer not added before, and calls Write and Close on it.             *)
(***************************************************************************)
CallAdd ==
  /\ Len(mw) < MaxWriters
  /\ mw' = Add(mw, Len(mw) + 1)
  /\ UNCHANGED <<mwCall, mwCount>>
  /\ UNCHANGED <<clientVars, monitorVars, wrapperVars, pipelineVars>>

CallWrite ==
  /\ mwCount < MaxMultiCalls
  /\ \E len \in 0..MaxWriteLen :
       \E plan \in [1..Len(mw) -> WriteResults(len)] :
         LET r == Write(mw, len, plan)
         IN mwCall' = [op |-> "Write", m |-> mw, len |-> len, plan |-> plan,
                       log |-> r.log, n |-> r.n, err |-> r.err]
  /\ mwCount' = mwCount + 1
  /\ UNCHANGED mw
  /\ UNCHANGED <<clientVars, monitorVars, wrapperVars, pipelineVars>>

CallClose ==
  /\ mwCount < MaxMultiCalls
  /\ \E plan \in [1..Len(mw) -> BOOLEAN] :
       LET r == Close(mw, plan)
       IN mwCall' = [op |-> "Close", m |-> mw, len |-> 0, plan |-> plan,
                     log |-> r.log, n |-> 0, err |-> r.err]
  /\ mwCount' = mwCount + 1
  /\ UNCHANGED mw
  /\ UNCHANGED <<clientVars, monitorVars, wrapperVars, pipelineVars>>

NextMulti ==
  \/ CallAdd
  \/ CallWrite
  \/ CallClose

SpecMulti == Init /\ [][NextMulti]_vars

(***************************************************************************)
(* Properties of the monitor's event stream.                               *)
(***************************************************************************)
Last(s) == s[Len(s)]

IsCompletion(r) == r.Error = Nil /\ r.Status.IsComplete

IsTimeout(r) == r = ErrorResult(ErrorTimeout)

IsTerminal(r) == IsCompletion(r) \/ IsTimeout(r)

IsPoll(e) == e.op = "JobStatus"

\* the monitor's polls, in order
Polls == SelectSeq(trace, IsPoll)

NoPollComplete == \A i \in DOMAIN trace : ~trace[i].complete

\* C1: when the stream is closed, it holds at least one event, its last
\* event is a complete status or the timeout error, and no earlier event is
\* one of these two.
C1_ExactlyOneTerminalEvent ==
  closed > 0 =>
    /\ stream # <<>>
    /\ IsTerminal(Last(stream))
    /\ \A i \in 1..(Len(stream) - 1) : ~IsTerminal(stream[i])

\* C2: only the monitor goroutine sends on the channel, and only while the
\* channel is open; the channel is closed by the goroutine's close statement
\* alone, at most once, and exactly once when the goroutine has ended.
C2_SingleProducerClosedOnce ==
  [][/\ stream' # stream =>
          /\ pc \in {"sendAuthErr", "sendErr", "sendStatus", "sendTimeout"}
          /\ closed = 0
          /\ closed' = 0
     /\ ~sentAfterClose'
     /\ closed' # closed => pc = "close" /\ closed = 0 /\ closed' = 1
     /\ pc' = "done" => closed' = 1 /\ stream' = stream]_vars

C2_Witness ==
  /\ pc = "done"
  /\ closed = 1
  /\ Len(stream) >= 3
  /\ \E i \in DOMAIN trace : trace[i].op = "Authenticate"

\* C3: a poll that fails with Unauthorized sends nothing and leads to a call
\* of Authenticate; that call sends an error event exactly when it fails; in
\* both cases the goroutine is next at the head of the loop, with no sleep;
\* and a run whose calls were a 401, a successful Authenticate and a complete
\* 200 closes the stream with the one completion event in it.
C3_SilentReauthentication ==
  [][/\ (pc = "call" /\ pc' # "call" /\ err' = ErrorUnauthorized) =>
          /\ pc' = "auth"
          /\ stream' = stream
     /\ (pc = "auth" /\ pc' # "auth") =>
          /\ Len(trace') = Len(trace) + 1
          /\ Last(trace').op = "Authenticate"
          /\ stream' = stream
          /\ IF err' = Nil THEN pc' = "head" ELSE pc' = "sendAuthErr"
     /\ (pc = "sendAuthErr" /\ pc' # "sendAuthErr") =>
          /\ stream' = Append(stream, ErrorResult(err))
          /\ err # Nil
          /\ pc' = "head"
          /\ wake' = wake
     /\ (/\ closed' = 1
         /\ Len(trace') = 3
         /\ trace'[1] = [op |-> "JobStatus", code |-> StatusUnauthorized,
                         err |-> ErrorUnauthorized, complete |-> FALSE]
         /\ trace'[2] = [op |-> "Authenticate", code |-> 0, err |-> Nil,
                         complete |-> FALSE]
         /\ trace'[3] = [op |-> "JobStatus", code |-> StatusOK, err |-> Nil,
                         complete |-> TRUE]) =>
          /\ Len(stream') = 1
          /\ IsCompletion(stream'[1])]_vars

C3_Witness ==
  /\ closed = 1
  /\ Len(trace) = 3
  /\ trace[1].code = StatusUnauthorized
  /\ trace[2] = [op |-> "Authenticate", code |-> 0, err |-> Nil,
                 complete |-> FALSE]
  /\ trace[3].code = StatusOK
  /\ trace[3].complete
  /\ trace[3].err = Nil

\* C4: when the stream is closed and no poll returned a status with the
\* completion flag set, the last event of the stream is the timeout error;
\* with a timeout of 0 no poll is issued and the timeout error is the only
\* event.
C4_TimeoutIsLast ==
  /\ (closed > 0 /\ NoPollComplete) =>
        /\ stream # <<>>
        /\ IsTimeout(Last(stream))
        /\ pc = "done"
  /\ (closed > 0 /\ deadline = 0) =>
        /\ trace = <<>>
        /\ stream = <<ErrorResult(ErrorTimeout)>>

C4_Witness ==
  /\ closed = 1
  /\ NoPollComplete
  /\ Len(Polls) >= 2
  /\ deadline > 0
  /\ IsTimeout(Last(stream))

\* C5: once started, the monitor eventually has sent a last event and
\* closed the stream.
C5_EventuallyClosed ==
  (pc # "idle") ~> (pc = "done" /\ closed = 1 /\ stream # <<>>)

C5_Witness ==
  /\ pc = "done"
  /\ closed = 1
  /\ Len(Polls) = MaxPolls
  /\ \E i \in DOMAIN trace : trace[i].op = "Authenticate" /\ trace[i].err # Nil
  /\ \E i \in DOMAIN trace : trace[i].op = "Authenticate" /\ trace[i].err = Nil

\* C6: a poll that fails with an error other than Unauthorized sends one
\* error event with that error and then sleeps the check period: it neither
\* ends the loop nor closes the stream.
C6_ErrorThenSleep ==
  [][/\ (pc = "call" /\ pc' # "call" /\ err' \notin {Nil, ErrorUnauthorized}) =>
          pc' = "sendErr"
     /\ (pc = "sendErr" /\ pc' # "sendErr") =>
          /\ stream' = Append(stream, ErrorResult(err))
          /\ pc' = "check"
     /\ (pc = "check" /\ pc' # "check" /\ err # Nil) =>
          /\ pc' = "sleep"
          /\ wake' = now + checkPeriod]_vars

(***************************************************************************)
(* Properties of the client's operations (SpecClient).                     *)
(***************************************************************************)
AuthorizedOps == {"StartBulkDataExport", "JobStatus", "GetData"}

\* C7: an authorized operation called on a client on which no Authenticate
\* has succeeded returns ErrorUnauthorized and hands no request to the HTTP
\* client, whatever its arguments and the server.
C7_UnauthorizedWithoutRequest ==
  (call.op \in AuthorizedOps /\ call.wasAuthed # "yes") =>
    /\ call.res.err = ErrorUnauthorized
    /\ call.res.net = 0

C7_Witness ==
  /\ call.op = "StartBulkDataExport"
  /\ call.wasAuthed = "failed"
  /\ call.groupID = GoodGroup
  /\ ~call.resp.transportErr
  /\ call.resp.code = StatusAccepted
  /\ Len(call.resp.cLocations) = 1
  /\ call.res.net = 0

\* the types all have a wire name
TypesValid(types) ==
  \A i \in DOMAIN types :
    types[i] \in {Patient, Coverage, ExplanationOfBenefit, OperationOutcome}

\* the export request was sent with a token and the server answered it
ExportAnswered ==
  /\ call.op = "StartBulkDataExport"
  /\ call.before # ""
  /\ call.groupID = GoodGroup
  /\ TypesValid(call.types)
  /\ ~call.resp.transportErr

\* C8: when the server answers an export request of a client that holds a
\* token, the call succeeds exactly when the status is 200 or 202 and there
\* is one Content-Location value, which it returns; 401 gives
\* ErrorUnauthorized, another status outside {200, 202}
\* ErrorUnexpectedStatusCode, and 200 or 202 with another number of
\* Content-Location values ErrorGreaterThanOneContentLocation.
C8_ExportOutcome ==
  ExportAnswered =>
    LET code == call.resp.code
        n == Len(call.resp.cLocations)
        res == call.res
    IN /\ res.err = Nil <=> (code \in {StatusOK, StatusAccepted} /\ n = 1)
       /\ res.err = Nil => res.url = call.resp.cLocations[1]
       /\ res.err # Nil => res.url = ""
       /\ code = StatusUnauthorized => res.err = ErrorUnauthorized
       /\ code \notin {StatusOK, StatusAccepted, StatusUnauthorized} =>
            res.err = ErrorUnexpectedStatusCode
       /\ (code \in {StatusOK, StatusAccepted} /\ n # 1) =>
            res.err = ErrorGreaterThanOneContentLocation

C8_Witness ==
  /\ ExportAnswered
  /\ call.resp.code = StatusAccepted
  /\ call.resp.cLocations = <<"https://srv/jobs/2">>
  /\ call.res.url = "https://srv/jobs/2"
  /\ Len(call.types) = 2

\* the job status request was sent with a token and the server answered it
StatusAnswered ==
  /\ call.op = "JobStatus"
  /\ call.before # ""
  /\ call.url = GoodURL
  /\ ~call.resp.transportErr

\* w is "(", one or more digits, "%", ")"
IsParenPercent(w) ==
  /\ Len(w) >= 4
  /\ w[1] = "("
  /\ w[Len(w) - 1] = "%"
  /\ w[Len(w)] = ")"
  /\ \A k \in 2..(Len(w) - 2) : w[k] \in Digits

\* where the header value h holds a parenthesized percentage
ParenPercents(h) ==
  {ab \in (1..Len(h)) \X (1..Len(h)) :
     ab[1] <= ab[2] /\ IsParenPercent(SubSeq(h, ab[1], ab[2]))}

\* the digits of the first parenthesized percentage of h
FirstPercentDigits(h) ==
  LET ab == CHOOSE x \in ParenPercents(h) :
              \A y \in ParenPercents(h) : x[1] <= y[1]
  IN SubSeq(h, ab[1] + 1, ab[2] - 2)

RECURSIVE Pow10(_)
Pow10(n) == IF n = 0 THEN 1 ELSE 10 * Pow10(n - 1)

RECURSIVE SumDigits(_, _)
SumDigits(d, k) ==
  IF k > Len(d) THEN 0
  ELSE DigitVal(d[k]) * Pow10(Len(d) - k) + SumDigits(d, k + 1)

\* the number a digit string writes, leading zeros allowed
NumberOf(d) == SumDigits(StripZeros(d), 1)

\* the number a digit string writes is at most 2^63 - 1
FitsInt(d) ==
  LET z == StripZeros(d)
  IN \/ Len(z) < Len(MaxIntDigits)
     \/ Len(z) = Len(MaxIntDigits) /\ ~DigitsGreater(z, MaxIntDigits)

\* the parts of C9 about the other status codes and the header count
C9_OtherOutcomes ==
  LET resp == call.resp
      res == call.res
  IN /\ (resp.code = StatusAccepted /\ Len(resp.xProgress) # 1) =>
          /\ res.err = ErrorUnexpectedNumberOfXProgress
          /\ res.st = ZeroJobStatus
     /\ resp.code = StatusUnauthorized => res.err = ErrorUnauthorized
     /\ resp.code \notin {StatusOK, StatusAccepted, StatusUnauthorized} =>
          res.err = ErrorUnexpectedStatusCode

\* C9 as claimed: on a 202 answer JobStatus returns {complete=false,
\* percent=N} exactly when there is one X-Progress value and it holds a
\* parenthesized percentage "(N%)"; another number of X-Progress values
\* gives ErrorUnexpectedNumberOfXProgress and no percent; 401 gives
\* ErrorUnauthorized; a status other than 200, 202, 401
\* ErrorUnexpectedStatusCode.
C9_Original ==
  StatusAnswered =>
    /\ call.resp.code = StatusAccepted =>
         ((call.res.err = Nil /\ ~call.res.st.IsComplete)
            <=> /\ Len(call.resp.xProgress) = 1
                /\ ParenPercents(call.resp.xProgress[1]) # {})
    /\ C9_OtherOutcomes

\* C9 as amended: on a 202 answer JobStatus returns {complete=false,
\* percent=N} exactly when there is one X-Progress value, it holds a
\* parenthesized percentage "(N%)" and the digits of the first one write a
\* number N that fits the int; the rest as claimed.
C9_ProgressOutcome ==
  StatusAnswered =>
    /\ call.resp.code = StatusAccepted =>
         LET p == call.resp.xProgress
             good == /\ Len(p) = 1
                     /\ ParenPercents(p[1]) # {}
                     /\ FitsInt(FirstPercentDigits(p[1]))
         IN /\ call.res.err = Nil <=> good
            /\ good =>
                 call.res.st =
                   [ZeroJobStatus EXCEPT
                      !.PercentComplete = NumberOf(FirstPercentDigits(p[1]))]
            /\ ~good => call.res.st = ZeroJobStatus
    /\ C9_OtherOutcomes

C9_Witness ==
  /\ StatusAnswered
  /\ call.resp.code = StatusAccepted
  /\ call.resp.xProgress = << <<"(", "5", "0", "%", ")">> >>
  /\ call.res.err = Nil
  /\ call.res.st.PercentComplete = 50

\* the wire names of the ResourceTypes 0..3
WireNames ==
  <<"Patient", "Coverage", "ExplanationOfBenefit", "OperationOutcome">>

AllKnown(items) ==
  \A i \in DOMAIN items : \E t \in DOMAIN WireNames : items[i].type = WireNames[t]

\* the urls of the entries of the given type name, in the server's order
RECURSIVE UrlsOfType(_, _)
UrlsOfType(items, name) ==
  IF items = <<>> THEN <<>>
  ELSE IF Last(items).type = name
       THEN Append(UrlsOfType(SubSeq(items, 1, Len(items) - 1), name),
                   Last(items).url)
       ELSE UrlsOfType(SubSeq(items, 1, Len(items) - 1), name)

\* m maps each type that has an entry to the urls of its entries, in order
GroupsByType(m, items) ==
  /\ DOMAIN m = {t \in 0..3 : UrlsOfType(items, WireNames[t + 1]) # <<>>}
  /\ \A t \in DOMAIN m : m[t] = UrlsOfType(items, WireNames[t + 1])

\* a 200 answer with a body that decodes
CompleteAnswered ==
  /\ StatusAnswered
  /\ call.resp.code = StatusOK
  /\ call.resp.body.decodable

\* the part of C10 about unknown type names: the call fails with the error
\* of ResourceTypeFromAPI and returns the zero JobStatus
C10_UnknownTypeFails ==
  (CompleteAnswered /\ ~AllKnown(call.resp.body.output)) =>
    /\ call.res.err = ErrNotAValidResourceType
    /\ call.res.st = ZeroJobStatus

\* C10 as claimed: a 200 answer whose output list holds known type names
\* only gives complete=true and a result map that holds, for each type with
\* an entry, the urls of its entries in the server's order; an unknown type
\* name fails the whole call with no result map.
C10_Original ==
  /\ (CompleteAnswered /\ AllKnown(call.resp.body.output)) =>
       /\ call.res.err = Nil
       /\ call.res.st.IsComplete
       /\ GroupsByType(call.res.st.ResultURLs, call.resp.body.output)
  /\ C10_UnknownTypeFails

\* C10 as amended: the same for a 200 answer whose output list holds known
\* type names only and whose transactionTime is an instant; with a
\* transactionTime that is none, the call fails and returns the zero
\* JobStatus.
C10_GroupedByType ==
  /\ (CompleteAnswered /\ AllKnown(call.resp.body.output)) =>
       IF call.resp.body.transactionTime = GoodInstant
       THEN /\ call.res.err = Nil
            /\ call.res.st.IsComplete
            /\ GroupsByType(call.res.st.ResultURLs, call.resp.body.output)
       ELSE /\ call.res.err = ErrBadInstant
            /\ call.res.st = ZeroJobStatus
  /\ C10_UnknownTypeFails

C10_Witness ==
  /\ CompleteAnswered
  /\ call.resp.body.transactionTime = GoodInstant
  /\ call.resp.body.output =
       <<[type |-> "Patient", url |-> "u1"], [type |-> "Coverage", url |-> "u1"],
         [type |-> "Patient", url |-> "u2"]>>
  /\ call.res.st.IsComplete
  /\ call.res.st.ResultURLs[Patient] = <<"u1", "u2">>
  /\ call.res.st.ResultURLs[Coverage] = <<"u1">>

\* the data request was sent with a token and the server answered it
DataAnswered ==
  /\ call.op = "GetData"
  /\ call.before # ""
  /\ call.res.net = 1
  /\ ~call.resp.transportErr

\* C11: when the server answers a data request of a client that holds a
\* token, 200 returns the response body with no error, 401 returns
\* ErrorUnauthorized, 404 returns an error that is ErrorRetryableHTTPStatus
\* and not ErrorUnexpectedStatusCode, and every other status returns
\* ErrorUnexpectedStatusCode; no body is returned beside an error.
C11_DataOutcome ==
  DataAnswered =>
    LET code == call.resp.code
        res == call.res
    IN /\ code = StatusOK => (res.err = Nil /\ res.data = call.resp.data)
       /\ code = StatusUnauthorized => res.err = ErrorUnauthorized
       /\ code = StatusNotFound =>
            (res.err = ErrorRetryableHTTPStatus
               /\ res.err # ErrorUnexpectedStatusCode)
       /\ code \notin {StatusOK, StatusUnauthorized, StatusNotFound} =>
            res.err = ErrorUnexpectedStatusCode
       /\ res.err # Nil => res.data = NoBody

C11_Witness ==
  /\ DataAnswered
  /\ call.resp.code = StatusNotFound
  /\ call.res.err = ErrorRetryableHTTPStatus

KnownResourceTypes ==
  {Patient, Coverage, ExplanationOfBenefit, OperationOutcome}

\* C12: ToAPI followed by ResourceTypeFromAPI gives back each of the four
\* resource types with no error; ToAPI fails on every value outside the
\* enumeration; ResourceTypeFromAPI fails on every string that is not one of
\* the four wire names.
C12_RoundTrip ==
  /\ call.op = "ToAPI" =>
        IF call.r \in KnownResourceTypes
        THEN /\ call.res.err = Nil
             /\ call.back.err = Nil
             /\ call.back.r = call.r
        ELSE call.res.err # Nil
  /\ call.op = "ResourceTypeFromAPI" =>
        (call.res.err = Nil <=>
           call.name \in {WireNames[i] : i \in DOMAIN WireNames})

C12_Witness ==
  /\ call.op = "ToAPI"
  /\ call.r = OperationOutcome
  /\ call.res.s = "OperationOutcome"
  /\ call.back.r = OperationOutcome

(***************************************************************************)
(* More properties of the monitor (Spec).                                  *)
(***************************************************************************)
Completions == {i \in DOMAIN stream : IsCompletion(stream[i])}

Timeouts == {i \in DOMAIN stream : IsTimeout(stream[i])}

\* C19: the stream holds at most one status event with the completion flag
\* set, and nothing follows it; it never holds both such an event and the
\* timeout error; and it holds no timeout error when the most recent poll
\* returned a status with the completion flag set.
C19_CompletionExcludesTimeout ==
  /\ Cardinality(Completions) <= 1
  /\ \A i \in Completions : i = Len(stream)
  /\ Completions = {} \/ Timeouts = {}
  /\ (Polls # <<>> /\ Last(Polls).complete) => Timeouts = {}
  /\ (closed > 0 /\ Completions # {}) => IsCompletion(Last(stream))

C19_Witness ==
  /\ closed = 1
  /\ Len(stream) >= 2
  /\ IsCompletion(Last(stream))
  /\ Len(Polls) = 2
  /\ Last(Polls).complete

\* the deadline is read at the head of the loop alone: only there does the
\* loop end, and a poll is issued only when the head found the deadline ahead
DeadlineOnlyAtHead ==
  [][/\ pc' = "exit" => pc \in {"head", "exit"}
     /\ (pc = "head" /\ pc' = "call") => now < deadline
     /\ (pc = "head" /\ pc' = "exit") =>
          (jobStatus.IsComplete \/ now >= deadline)
     /\ (pc # "head" /\ pc' # pc) =>
          pc' \in CASE pc = "idle" -> {"head"}
                    [] pc = "call" -> {"auth", "sendErr", "sendStatus"}
                    [] pc = "auth" -> {"head", "sendAuthErr"}
                    [] pc = "sendAuthErr" -> {"head"}
                    [] pc = "sendErr" -> {"check"}
                    [] pc = "sendStatus" -> {"check"}
                    [] pc = "check" -> {"head", "sleep"}
                    [] pc = "sleep" -> {"head"}
                    [] pc = "exit" -> {"sendTimeout", "close"}
                    [] pc = "sendTimeout" -> {"close"}
                    [] pc = "close" -> {"done"}
                    [] OTHER -> {}]_vars

\* the status or the error a poll returned is sent, at any time
PollResultSent ==
  [][/\ (pc = "sendErr" /\ pc' # pc) =>
          (err # Nil /\ stream' = Append(stream, ErrorResult(err)))
     /\ (pc = "sendStatus" /\ pc' # pc) =>
          (err = Nil /\ stream' = Append(stream, StatusResult(jobStatus)))]_vars

\* a status with the completion flag set that a poll returned with no error
\* is the last event of the closed stream, which holds no timeout error
CompleteIsLast ==
  (closed > 0 /\ Polls # <<>> /\ Last(Polls).complete
     /\ Last(Polls).err = Nil) =>
    (IsCompletion(Last(stream)) /\ Timeouts = {})

\* C20 as stated: the deadline is read at the head of the loop alone, and
\* every poll that returns, at any time, is followed by the sending of a
\* status or an error event before the head of the loop is reached again.
C20_Original ==
  /\ DeadlineOnlyAtHead
  /\ PollResultSent
  /\ []CompleteIsLast
  /\ [][(pc = "call" /\ pc' # pc) => pc' \in {"sendErr", "sendStatus"}]_vars

\* C20: the deadline is read at the head of the loop alone; every poll that
\* returns, at any time, has its status or its error sent, except that after
\* ErrorUnauthorized Authenticate is called and an error is sent only when
\* that call fails; a status with the completion flag set that was returned
\* after the deadline is the last event and no timeout error is sent.
C20_OutcomeHandledPastDeadline ==
  /\ DeadlineOnlyAtHead
  /\ PollResultSent
  /\ []CompleteIsLast
  /\ [][/\ (pc = "call" /\ pc' # pc) =>
            IF err' = ErrorUnauthorized THEN pc' = "auth"
            ELSE IF err' # Nil THEN pc' = "sendErr"
            ELSE pc' = "sendStatus"
       /\ (pc = "auth" /\ pc' # pc) =>
            IF err' = Nil THEN pc' = "head" /\ stream' = stream
            ELSE pc' = "sendAuthErr"
       /\ (pc = "sendAuthErr" /\ pc' # pc) =>
            stream' = Append(stream, ErrorResult(err))]_vars

\* the poll returned a complete status and the deadline has passed before
\* the status is sent
C20_Witness ==
  /\ pc = "check"
  /\ now >= deadline
  /\ deadline > 0
  /\ IsCompletion(Last(stream))
  /\ Timeouts = {}

(***************************************************************************)
(* Properties of the resourceWrapper (SpecWrapper).                        *)
(***************************************************************************)
\* call n is a JSON() on the wrapper not yet done mutating, call k an earlier
\* Proto() that returned the proto, and only mutations lie between them
ReadsAfterProto(k, n) ==
  /\ k < n
  /\ rwTrace[n].op = "JSON"
  /\ ~rwTrace[n].done
  /\ rwTrace[k].op = "Proto"
  /\ rwTrace[k].err = Nil
  /\ \A j \in (k + 1)..(n - 1) : rwTrace[j].op = "Mutate"

\* the content of the proto when call n is made, for such k and n
ContentBefore(k, n) ==
  IF n - 1 > k THEN rwTrace[n - 1].proto ELSE rwTrace[k].proto

\* C16: on a wrapper that is not done mutating, a JSON() that follows a
\* Proto() and any mutations of the proto it returned marshals the proto as
\* it is then: it returns those bytes (or the marshaller's error), and not
\* the bytes the wrapper was created from when these differ from them.
C16_ReserializedAfterProto ==
  \A n \in DOMAIN rwTrace : \A k \in DOMAIN rwTrace :
    ReadsAfterProto(k, n) =>
      LET m == Marshal(ContentBefore(k, n))
      IN /\ rwTrace[n].err = m.err
         /\ rwTrace[n].json = m.json
         /\ (m.err = Nil /\ rwTrace[1].json # m.json) =>
              rwTrace[n].json # rwTrace[1].json

C16_Witness ==
  /\ Len(rwTrace) = 4
  /\ rwTrace[1].json = [form |-> "source", v |-> "a"]
  /\ rwTrace[2].op = "Proto"
  /\ rwTrace[3].op = "Mutate"
  /\ rwTrace[3].proto = "b"
  /\ rwTrace[4].op = "JSON"
  /\ rwTrace[4].json = [form |-> "canonical", v |-> "b"]
  /\ ~rw.doneMutating

\* C17: while the wrapper is not done mutating, its json and its proto are
\* never both set.
C17_NeverBothCached ==
  ~rw.doneMutating => (rw.json = NilJSON \/ rw.proto = NilProto)

\* the calls i and j were both made on the wrapper done mutating and both
\* returned no error
BothDone(i, j, op) ==
  /\ rwTrace[i].op = op /\ rwTrace[i].done /\ rwTrace[i].err = Nil
  /\ rwTrace[j].op = op /\ rwTrace[j].done /\ rwTrace[j].err = Nil

\* C18: once doneMutating is set it stays set, no call clears the json or
\* the proto the wrapper holds, and the JSON() calls made from then on
\* return the same bytes and the Proto() calls the same proto.
C18_StableOnceDone ==
  /\ [][rw.doneMutating =>
          /\ rw'.doneMutating
          /\ rw.json # NilJSON => rw'.json = rw.json
          /\ rw.proto # NilProto => rw'.proto = rw.proto]_vars
  /\ [](\A i \in DOMAIN rwTrace : \A j \in DOMAIN rwTrace :
          /\ BothDone(i, j, "JSON") => rwTrace[i].json = rwTrace[j].json
          /\ BothDone(i, j, "Proto") => rwTrace[i].proto = rwTrace[j].proto)

C18_Witness ==
  /\ rw.doneMutating
  /\ rw.json # NilJSON
  /\ rw.proto # NilProto
  /\ Len(rwTrace) >= 5
  /\ BothDone(Len(rwTrace) - 2, Len(rwTrace), "JSON")
  /\ rwTrace[Len(rwTrace) - 1].op = "Proto"
  /\ rwTrace[Len(rwTrace) - 1].err = Nil

(***************************************************************************)
(* Properties of the Pipeline (SpecPipeline).                              *)
(***************************************************************************)
\* the stages the last call invoked, in order, by method and number
Stages(kinds) ==
  LET IsKind(e) == e.kind \in kinds
      sel == SelectSeq(plCall.log, IsKind)
  IN [k \in DOMAIN sel |-> <<sel[k].kind, sel[k].idx>>]

\* Process of processors 1..n, then Write of sinks 1..m
ChainOf(n, m) ==
  [k \in 1..(n + m) |->
     IF k <= n THEN <<"Process", k>> ELSE <<"Write", k - n>>]

\* Finalize of processors 1..n, then of sinks 1..m
FinalizersOf(n, m) ==
  [k \in 1..(n + m) |->
     IF k <= n THEN <<"ProcessorFinalize", k>> ELSE <<"SinkFinalize", k - n>>]

\* NewPipeline gave processor i the Process of processor i + 1 as output, the
\* last one writeToSinks, and the pipeline the Process of the first one
WiredInOrder ==
  pl.built =>
    /\ \A i \in 1..pl.n :
         pl.output[i] = IF i < pl.n THEN i + 1 ELSE WriteStage
    /\ pl.pipelineFunc = IF pl.n > 0 THEN 1 ELSE WriteStage

\* every invocation of the last Process call was given the resource of that
\* call
OwnResource == \A k \in DOMAIN plCall.log : plCall.log[k].res = plCall.res

C14_WriteStopsAtFirstFailure ==
  plCall.op = "Process" =>
    /\ plCall.plan.stage = "S" =>
         /\ Stages({"Write"}) =
              [k \in 1..plCall.plan.idx |-> <<"Write", k>>]
         /\ Stages({"Process"}) = [k \in 1..pl.n |-> <<"Process", k>>]
         /\ plCall.err = WriteError(plCall.plan.idx)
         /\ OwnResource
    /\ plCall.plan = NoFault =>
         /\ Stages({"Write"}) = [k \in 1..pl.m |-> <<"Write", k>>]
         /\ plCall.err = Nil

C14_Witness ==
  /\ plCall.op = "Process"
  /\ pl.n = 2
  /\ pl.m = 2
  /\ plCall.plan = [stage |-> "S", idx |-> 1, how |-> "fail"]
  /\ Stages({"Write"}) = << <<"Write", 1>> >>
  /\ plCall.err = WriteError(1)

IsPrefix(a, b) ==
  /\ Len(a) <= Len(b)
  /\ \A k \in DOMAIN a : a[k] = b[k]

Finalizers == Stages({"ProcessorFinalize", "SinkFinalize"})

\* C15: Finalize invokes the processors' Finalize in list order and then
\* the sinks' Finalize in list order, up to the first one that fails, whose
\* error it returns: after it no other is invoked; it returns nil only when
\* all of them were invoked and none failed.
C15_FinalizeFailFast ==
  plCall.op = "Finalize" =>
    LET all == FinalizersOf(pl.n, pl.m)
        fault == plCall.fault
    IN /\ IsPrefix(Finalizers, all)
       /\ plCall.err = Nil <=> (Finalizers = all /\ fault = NoFault)
       /\ plCall.err # Nil => Finalizers # <<>>
       /\ (fault.stage = "P" /\ plCall.err = ProcessorFinalizeError(fault.idx))
            => Finalizers = SubSeq(all, 1, fault.idx)
       /\ (fault.stage = "S" /\ plCall.err = SinkFinalizeError(fault.idx))
            => Finalizers = SubSeq(all, 1, pl.n + fault.idx)
       /\ (plCall.err # Nil /\ fault = NoFault) =>
            Last(Finalizers)[1] = "ProcessorFinalize"

C15_Witness ==
  /\ plCall.op = "Finalize"
  /\ pl.n = 2
  /\ pl.m = 2
  /\ plCall.fault = [stage |-> "P", idx |-> 1, how |-> "fail"]
  /\ plCall.err = ProcessorFinalizeError(1)
  /\ Finalizers = << <<"ProcessorFinalize", 1>> >>

\* C24: every Write the pipeline invokes is given a resource whose
\* doneMutating is already set, and every Process a resource whose
\* doneMutating is not set; no Process of a resource is invoked after a
\* Write of it; a resource that a processor drops, refuses or keeps is not
\* marked, and one that every processor forwarded is.
C24_WritesStabilized ==
  /\ \A k \in DOMAIN plCall.log :
       LET e == plCall.log[k]
       IN /\ e.kind = "Write" => e.done
          /\ e.kind = "Process" => ~e.done
          /\ e.kind = "Write" =>
               \A l \in DOMAIN plCall.log :
                 (l > k /\ plCall.log[l].res = e.res) =>
                    plCall.log[l].kind = "Write"
          /\ e.kind = "Write" => e.res \in plStabilized
  /\ \A i \in DOMAIN plBuffered :
       \A k \in DOMAIN plBuffered[i] : plBuffered[i][k] \notin plStabilized
  /\ plCall.op = "Process" =>
       (plCall.res \in plStabilized <=> plCall.plan.stage # "P")

C24_Witness ==
  /\ plCall.op = "Finalize"
  /\ pl.n = 2
  /\ pl.m = 2
  /\ 1 \in plStabilized
  /\ \E k \in DOMAIN plCall.log :
       /\ k + 1 \in DOMAIN plCall.log
       /\ plCall.log[k] = Invocation("Process", 2, 1, FALSE)
       /\ plCall.log[k + 1] = Invocation("Write", 1, 1, TRUE)

\* C25: when processor i returns an error for the resource of a Process
\* call without passing it on, the call has invoked Process of processors
\* 1..i in order and nothing else, returns that error, and leaves the
\* pipeline as NewPipeline built it; a Process call in which no stage
\* fails invokes the whole chain from the first processor on, whatever the
\* earlier calls returned.
C25_ProcessorErrorAborts ==
  /\ WiredInOrder
  /\ plCall.op # "none" => Last(plErrors) = plCall.err
  /\ (plCall.op = "Process" /\ plCall.plan.stage = "P"
         /\ plCall.plan.how = "fail") =>
       /\ Stages({"Process", "Write", "ProcessorFinalize", "SinkFinalize"}) =
            [k \in 1..plCall.plan.idx |-> <<"Process", k>>]
       /\ Len(plCall.log) = plCall.plan.idx
       /\ OwnResource
       /\ plCall.err = ProcessError(plCall.plan.idx)
  /\ (plCall.op = "Process" /\ plCall.plan = NoFault) =>
       /\ Stages({"Process", "Write"}) = ChainOf(pl.n, pl.m)
       /\ OwnResource
       /\ plCall.err = Nil

C25_Witness ==
  /\ plCall.op = "Process"
  /\ plCall.res = 2
  /\ plCall.plan = NoFault
  /\ pl.n = 2
  /\ pl.m = 1
  /\ plErrors = <<ProcessError(1), Nil>>
  /\ Stages({"Process", "Write"}) =
       << <<"Process", 1>>, <<"Process", 2>>, <<"Write", 1>> >>

\* C29: a pipeline built with no processors has writeToSinks as its
\* pipeline function, and a Process call on it invokes Write of the sinks
\* in list order, up to the first that fails, and nothing else; on a
\* pipeline with no processors and no sinks, Process and Finalize invoke
\* nothing and return nil.
C29_NoProcessors ==
  (pl.built /\ pl.n = 0) =>
    /\ pl.pipelineFunc = WriteStage
    /\ plCall.op = "Process" =>
         /\ OwnResource
         /\ IsPrefix([k \in DOMAIN plCall.log |->
                        <<plCall.log[k].kind, plCall.log[k].idx>>],
                     ChainOf(0, pl.m))
         /\ plCall.err = Nil => Len(plCall.log) = pl.m
         /\ plCall.plan = NoFault => plCall.err = Nil
         /\ plCall.plan.stage = "S" =>
              /\ Len(plCall.log) = plCall.plan.idx
              /\ plCall.err = WriteError(plCall.plan.idx)
    /\ pl.m = 0 =>
         /\ plCall.log = <<>>
         /\ plCall.err = Nil
         /\ \A k \in DOMAIN plErrors : plErrors[k] = Nil

C29_Witness ==
  /\ pl.n = 0
  /\ pl.m = 2
  /\ plCall.op = "Process"
  /\ plCall.res = 2
  /\ plCall.err = Nil
  /\ plCall.log = <<Invocation("Write", 1, 2, TRUE),
                    Invocation("Write", 2, 2, TRUE)>>

\* a pipeline with no processors and no sinks after a Process and the
\* Finalize call
NoOpPipelineDone ==
  /\ pl.built
  /\ pl.n = 0
  /\ pl.m = 0
  /\ plCall.op = "Finalize"
  /\ Len(plErrors) >= 2

(***************************************************************************)
(* The two ways of failing to read the percentage (SpecClient).            *)
(***************************************************************************)
\* C28: when a 202 answer with exactly one X-Progress value gives no
\* percentage, JobStatus returns ErrorUnableToParseProgress, both when the
\* value does not match progressREGEX and when strconv.Atoi rejects the
\* digits of the match.
C28_ParseFailures ==
  (/\ StatusAnswered
   /\ call.resp.code = StatusAccepted
   /\ Len(call.resp.xProgress) = 1
   /\ call.res.err # Nil) =>
     call.res.err = ErrorUnableToParseProgress

(***************************************************************************)
(* Properties of the MultiWriteCloser (SpecMulti).                         *)
(***************************************************************************)
\* the messages of the entries in S whose Close failed, in the order of the
\* entries, with "," between them
RECURSIVE MessagesInOrder(_)
MessagesInOrder(S) ==
  LET k == Min(S)
  IN IF S = {k} THEN CloseError(mwCall.m[k])
     ELSE CloseError(mwCall.m[k]) \o "," \o MessagesInOrder(S \ {k})

CallsOf(kind, upTo) == [k \in 1..upTo |-> <<kind, mwCall.m[k]>>]

\* C30: a Close call calls Close of every writer added, once each and in
\* the order of the Adds, whichever of them fail; it returns an error if
\* and only if some Close failed, and the error is the failed ones'
\* messages in that order, joined by ","; a Write call calls Write of the
\* writers in the order of the Adds up to the first that returns an error
\* or a count other than len(p), and of no later one: it returns that
\* writer's count with its error, or with ErrShortWrite, and len(p) and
\* nil when there is no such writer.
C30_CloseAllWriteStops ==
  /\ mwCall.op = "Close" =>
       LET failed == {k \in DOMAIN mwCall.m : mwCall.plan[k]}
       IN /\ mwCall.log = CallsOf("Close", Len(mwCall.m))
          /\ mwCall.err = Nil <=> failed = {}
          /\ failed # {} => mwCall.err = MessagesInOrder(failed)
  /\ mwCall.op = "Write" =>
       LET bad == {k \in DOMAIN mwCall.m :
                     mwCall.plan[k].fails \/ mwCall.plan[k].n # mwCall.len}
       IN /\ bad = {} =>
               /\ mwCall.log = CallsOf("Write", Len(mwCall.m))
               /\ mwCall.n = mwCall.len
               /\ mwCall.err = Nil
          /\ bad # {} =>
               LET f == Min(bad)
               IN /\ mwCall.log = CallsOf("Write", f)
                  /\ mwCall.n = mwCall.plan[f].n
                  /\ mwCall.err = IF mwCall.plan[f].fails
                                  THEN WriterError(mwCall.m[f])
                                  ELSE ErrShortWrite

C30_Witness ==
  /\ mwCall.op = "Close"
  /\ mwCall.m = <<1, 2, 3>>
  /\ mwCall.plan = <<TRUE, FALSE, TRUE>>
  /\ mwCall.log = << <<"Close", 1>>, <<"Close", 2>>, <<"Close", 3>> >>
  /\ mwCall.err = "close failed: writer 1,close failed: writer 3"

\* a Write that stopped at a short write of the second of three writers
ShortWriteStops ==
  /\ mwCall.op = "Write"
  /\ mwCall.m = <<1, 2, 3>>
  /\ mwCall.len = 1
  /\ mwCall.log = << <<"Write", 1>>, <<"Write", 2>> >>
  /\ mwCall.n = 0
  /\ mwCall.err = ErrShortWrite

(***************************************************************************)
(* The monitor and a request that fails in the transport (Spec).           *)
(***************************************************************************)
\* the poll that returns in this step was sent and got no answer: the client
\* holds a token, the URL makes a request, and no status code came back
TransportFailed ==
  /\ pc = "call"
  /\ pc' # pc
  /\ token # ""
  /\ NewRequestOK(jobStatusURL)
  /\ Last(trace').code = 0

\* C21: a status poll whose request fails in the transport returns the zero
\* JobStatus and no error; the monitor sends it as a status event, not an
\* error event, sleeps the check period and goes on with the loop.
C21_TransportFailureIsStatus ==
  [][/\ TransportFailed =>
          /\ jobStatus' = ZeroJobStatus
          /\ err' = Nil
          /\ pc' = "sendStatus"
     /\ (pc = "sendStatus" /\ pc' # pc) =>
          /\ stream' = Append(stream, StatusResult(jobStatus))
          /\ pc' = "check"
     /\ (pc = "check" /\ pc' # pc /\ jobStatus = ZeroJobStatus) =>
          /\ pc' = "sleep"
          /\ wake' = now + checkPeriod
          /\ closed' = 0
     /\ (pc = "sleep" /\ pc' # pc) => (pc' = "head" /\ now >= wake)]_vars

C21_Witness ==
  /\ pc = "sleep"
  /\ token # ""
  /\ jobStatusURL = GoodURL
  /\ Last(Polls).code = 0
  /\ Last(Polls).err = Nil
  /\ Last(stream) = StatusResult(ZeroJobStatus)
  /\ checkPeriod > 0

(***************************************************************************)
(* The monitor and a caller that stops receiving (SpecStalled).            *)
(***************************************************************************)
SendPcs == {"sendAuthErr", "sendErr", "sendStatus", "sendTimeout"}

Blocked == pc \in SendPcs /\ Len(out) = ChanCap

C23_NeverStale ==
  (/\ rwTrace # <<>>
   /\ Last(rwTrace).op = "JSON"
   /\ ~Last(rwTrace).done
   /\ Last(rwTrace).err = Nil
   /\ rw.proto # NilProto) =>
    Last(rwTrace).json = Marshal(rw.proto).json

\* C27: a Proto() that fails leaves the wrapper as it was, with its json and
\* without a proto, and every later JSON() returns the bytes the wrapper was
\* created from; a JSON() that fails leaves the wrapper as it was, without
\* json.
C27_FailureLeavesWrapper ==
  /\ [][(rwTrace' # rwTrace /\ Last(rwTrace').err # Nil) =>
          /\ rw' = rw
          /\ Last(rwTrace').op = "Proto" =>
               (rw'.json # NilJSON /\ rw'.proto = NilProto
                  /\ Last(rwTrace').proto = NilProto)
          /\ Last(rwTrace').op = "JSON" =>
               (rw'.json = NilJSON /\ Last(rwTrace').json = NilJSON)]_vars
  /\ [](\A k \in DOMAIN rwTrace : \A n \in DOMAIN rwTrace :
          (/\ k < n
           /\ rwTrace[k].op = "Proto" /\ rwTrace[k].err # Nil
           /\ rwTrace[n].op = "JSON") =>
            (rwTrace[n].err = Nil /\ rwTrace[n].json = rwTrace[1].json))

C27_Witness ==
  /\ Len(rwTrace) = 4
  /\ rwTrace[1].json = [form |-> "malformed", v |-> ""]
  /\ rwTrace[2].op = "Proto"
  /\ rwTrace[2].err = ErrUnmarshal
  /\ rwTrace[3].op = "JSON"
  /\ rwTrace[3].json = rwTrace[1].json
  /\ rwTrace[4].op = "Proto"
  /\ rw = NewWrapper(rwTrace[1].json)

(***************************************************************************)
(* The client's token (SpecSession).                                       *)
(***************************************************************************)
\* this step is the return of the caller's operation op
Returns(op) == call' # call /\ call'.op = op

\* C26: c.token changes only in a step in which Authenticate, called by the
\* caller or by the monitor after ErrorUnauthorized, returns no error, and it
\* is then the token Authenticate returns; an Authenticate that fails, the
\* other operations of the client and the other steps of the monitor leave
\* it as it is.
C26_TokenSetByAuthenticate ==
  [][/\ token' # token =>
          \/ /\ Returns("Authenticate")
             /\ call'.res.err = Nil
             /\ token' = call'.res.ret
          \/ /\ pc = "auth"
             /\ Last(trace').op = "Authenticate"
             /\ err' = Nil
     /\ (Returns("Authenticate") /\ call'.res.err # Nil) => token' = token
     /\ (pc = "auth" /\ pc' # pc /\ err' # Nil) => token' = token
     /\ (\E op \in AuthorizedOps : Returns(op)) => token' = token
     /\ (pc # "auth" /\ pc' # pc) => token' = token]_vars

C26_Witness ==
  /\ pc = "sendAuthErr"
  /\ token = "tok2"
  /\ Last(trace).op = "Authenticate"
  /\ Last(trace).err # Nil

====
